---- MODULE Spec2Model ----
(***************************************************************************)
(* universal-api-cache: the cache middleware (src/src/middleware.ts), its  *)
(* key builder (src/src/utils/keyGenerator.ts, hash.ts), the two store     *)
(* tiers (src/src/store) and the pattern invalidation engine               *)
(* (src/src/utils/invalidation.ts).                                        *)
(*                                                                         *)
(* Text is modelled as a sequence of atoms (TLA+ strings).  The atoms ":" , *)
(* "*", "?", "&", "=", "/", "." and "#" are the characters the code gives a *)
(* meaning to; every other atom stands for a run of ordinary characters.   *)
(***************************************************************************)
EXTENDS Integers, Sequences, FiniteSets, TLC

VARIABLES
  options,          \* apiCache(userOptions): the merged options, fixed at construction
  now,              \* Date.now(), milliseconds
  memory,           \* MemoryStore: key -> stored record, the fast tier
  redis,            \* RedisStore: key -> stored record, the slow tier
  hits, misses,     \* the counters of getCacheStats
  pendingRequests,  \* Map<string, Promise>: key -> id of the registered promise
  promises,         \* promise id -> state of the promise chain built for it
  reqs,             \* request id -> the middleware call made for it
  data,             \* the downstream application's state (what handlers read and write)
  inv,              \* PatternInvalidationEngine: the invalidation pass in progress
  reqA, reqB,       \* two requests given to buildCacheKey
  keyA, keyB,       \* the keys it returned for them
  twin,             \* a scripted run and what its first execution was observed to do
  cleared           \* the last clearCache call: its pattern and the state it started from

auxvars == <<inv, reqA, reqB, keyA, keyB, twin, cleared>>
vars == <<options, now, memory, redis, hits, misses, pendingRequests, promises, reqs, data,
          inv, reqA, reqB, keyA, keyB, twin, cleared>>

-----------------------------------------------------------------------------
(* Text helpers: String.prototype.split / Array.prototype.join on atoms.   *)

RECURSIVE IndexFrom(_, _, _)
IndexFrom(s, a, i) ==
  IF i > Len(s) THEN 0 ELSE IF s[i] = a THEN i ELSE IndexFrom(s, a, i + 1)

IndexOf(s, a) == IndexFrom(s, a, 1)

Before(s, a) == IF IndexOf(s, a) = 0 THEN s ELSE SubSeq(s, 1, IndexOf(s, a) - 1)

After(s, a) == IF IndexOf(s, a) = 0 THEN <<>> ELSE SubSeq(s, IndexOf(s, a) + 1, Len(s))

RECURSIVE Split(_, _)
Split(s, a) ==
  IF IndexOf(s, a) = 0 THEN <<s>>
  ELSE CHOOSE parts \in {<<Before(s, a)>> \o Split(rest, a) : rest \in {After(s, a)}} : TRUE

RECURSIVE Join(_, _)
Join(parts, a) ==
  IF parts = <<>> THEN <<>>
  ELSE IF Len(parts) = 1 THEN parts[1]
  ELSE parts[1] \o <<a>> \o Join(Tail(parts), a)

\* The collation order of the atoms used in names (localeCompare, Array.sort).
AtomOrder == <<"1", "2", "a", "b", "x", "y", "z">>

Rank(a) == IF \E i \in 1..Len(AtomOrder) : AtomOrder[i] = a
           THEN CHOOSE i \in 1..Len(AtomOrder) : AtomOrder[i] = a
           ELSE 0

RECURSIVE TextLess(_, _)
TextLess(s, t) ==
  IF t = <<>> THEN FALSE
  ELSE IF s = <<>> THEN TRUE
  ELSE IF Rank(s[1]) # Rank(t[1]) THEN Rank(s[1]) < Rank(t[1])
  ELSE TextLess(Tail(s), Tail(t))

-----------------------------------------------------------------------------
(* src/src/utils/keyGenerator.ts                                           *)

\* WHATWG URL path parsing: "." segments are dropped, ".." pops a segment,
\* and a trailing dot segment leaves an empty last segment.
RECURSIVE ResolveSegments(_, _)
ResolveSegments(segs, out) ==
  IF segs = <<>> THEN out
  ELSE LET s == Head(segs)
           last == Len(segs) = 1
       IN IF s = <<"..">> \/ s = <<".", ".">>
          THEN ResolveSegments(Tail(segs),
                 (IF out = <<>> THEN out ELSE SubSeq(out, 1, Len(out) - 1))
                   \o (IF last THEN << <<>> >> ELSE <<>>))
          ELSE IF s = <<".">>
          THEN ResolveSegments(Tail(segs), out \o (IF last THEN << <<>> >> ELSE <<>>))
          ELSE ResolveSegments(Tail(segs), Append(out, s))

\* new URL(url, 'http://placeholder').pathname, for a url that is an
\* origin-form request target ("/..." or empty).
normalizeUrl(url) ==
  LET p == Before(Before(url, "?"), "#")
  IN IF p = <<>> THEN <<"/">>
     ELSE <<"/">> \o Join(ResolveSegments(Split(Tail(p), "/"), <<>>), "/")

\* URLSearchParams entries of the url: the pieces between "&", each split at
\* its first "="; empty pieces are skipped.
RECURSIVE QueryEntries(_)
QueryEntries(pieces) ==
  IF pieces = <<>> THEN <<>>
  ELSE (IF Head(pieces) = <<>> THEN <<>>
        ELSE << <<Before(Head(pieces), "="), After(Head(pieces), "=")>> >>)
       \o QueryEntries(Tail(pieces))

searchParams(url) ==
  IF IndexOf(Before(url, "#"), "?") = 0 THEN <<>>
  ELSE QueryEntries(Split(After(Before(url, "#"), "?"), "&"))

\* Array.prototype.sort by name, stable: insertion after the last entry whose
\* name is not greater.
RECURSIVE InsertEntry(_, _)
InsertEntry(sorted, e) ==
  IF sorted = <<>> THEN <<e>>
  ELSE IF TextLess(e[1], Head(sorted)[1]) THEN <<e>> \o sorted
  ELSE <<Head(sorted)>> \o InsertEntry(Tail(sorted), e)

RECURSIVE SortEntries(_, _)
SortEntries(entries, acc) ==
  IF entries = <<>> THEN acc
  ELSE SortEntries(Tail(entries), InsertEntry(acc, Head(entries)))

RECURSIVE SerializeEntries(_)
SerializeEntries(entries) ==
  IF entries = <<>> THEN <<>>
  ELSE Head(entries)[1] \o <<"=">> \o Head(entries)[2]
       \o (IF Len(entries) = 1 THEN <<>> ELSE <<"&">> \o SerializeEntries(Tail(entries)))

sortQueryParams(url) == SerializeEntries(SortEntries(searchParams(url), <<>>))

(* src/src/utils/hash.ts                                                   *)

\* A JSON value, and so a request body: undefined, a string, an object (its
\* entries <<name, value>> in insertion order), an array (its elements in
\* order) or an object JSON.stringify throws on.
BodyUndef == [t |-> "undef", s |-> <<>>, kv |-> <<>>, els |-> <<>>]
BodyStr(s) == [t |-> "str", s |-> s, kv |-> <<>>, els |-> <<>>]
BodyObj(kv) == [t |-> "obj", s |-> <<>>, kv |-> kv, els |-> <<>>]
BodyArr(els) == [t |-> "arr", s |-> <<>>, kv |-> <<>>, els |-> els]
BodyCyclic(kv) == [t |-> "cyc", s |-> <<>>, kv |-> kv, els |-> <<>>]

\* A canonicalization that sorts the entries of the outermost object only.
sanitizeObjectShallow(obj) ==
  IF obj.t = "obj" THEN BodyObj(SortEntries(obj.kv, <<>>)) ELSE obj

\* sanitizeObject: an array keeps its order, each element sanitized; an
\* object gets its entries re-inserted in sorted key order, each value
\* sanitized; anything else is itself.
RECURSIVE sanitizeObject(_)
sanitizeObject(obj) ==
  IF obj.t = "arr"
  THEN BodyArr([i \in DOMAIN obj.els |-> sanitizeObject(obj.els[i])])
  ELSE IF obj.t = "obj"
  THEN BodyObj([i \in DOMAIN obj.kv |->
                  << SortEntries(obj.kv, <<>>)[i][1],
                     sanitizeObject(SortEntries(obj.kv, <<>>)[i][2]) >>])
  ELSE obj

\* JSON.stringify of a string, an array or an object.
RECURSIVE JSONstringify(_)
RECURSIVE StringifyEntries(_)
RECURSIVE StringifyElements(_)
StringifyEntries(kv) ==
  IF kv = <<>> THEN <<>>
  ELSE <<"\"">> \o Head(kv)[1] \o <<"\"", ":">> \o JSONstringify(Head(kv)[2])
       \o (IF Len(kv) = 1 THEN <<>> ELSE <<",">> \o StringifyEntries(Tail(kv)))

StringifyElements(els) ==
  IF els = <<>> THEN <<>>
  ELSE JSONstringify(Head(els))
       \o (IF Len(els) = 1 THEN <<>> ELSE <<",">> \o StringifyElements(Tail(els)))

JSONstringify(v) ==
  IF v.t = "str" THEN <<"\"">> \o v.s \o <<"\"">>
  ELSE IF v.t = "arr" THEN <<"[">> \o StringifyElements(v.els) \o <<"]">>
  ELSE <<"{">> \o StringifyEntries(v.kv) \o <<"}">>

\* crypto sha256, hex: one atom per distinct input text (collision-free).
sha256hex(str) == <<"sha256" \o ToString(str)>>

sha256(body) ==
  IF body.t = "str" THEN sha256hex(body.s)
  ELSE sha256hex(JSONstringify(sanitizeObject(body)))

\* getUserId(req) || 'anon'
userIdOrAnon(req) == IF req.user = <<>> THEN <<"anon">> ELSE req.user

bodyHash(req) ==
  IF req.method = "GET" THEN <<>>
  ELSE IF req.body.t = "cyc" THEN <<"no-body">>
  ELSE IF req.body.t = "undef" THEN sha256(BodyObj(<<>>))
  ELSE sha256(req.body)

buildCacheKey(req) ==
  Join(<< <<req.method>>, normalizeUrl(req.url), sortQueryParams(req.url),
          bodyHash(req), userIdOrAnon(req) >>, ":")


-----------------------------------------------------------------------------
(* Model bounds.                                                           *)

MaxReqs == 3        \* middleware calls in one behaviour of Spec
MaxGets == 4        \* middleware calls in one behaviour of SpecGet
MaxTicks == 3       \* clock steps in one behaviour
TickMs == 500       \* length of one clock step, milliseconds
SmallLimit == 1     \* the value given to options.maxPayloadSize

ReqIds == 1..(IF MaxGets > MaxReqs THEN MaxGets ELSE MaxReqs)

-----------------------------------------------------------------------------
(* Values.                                                                 *)

\* A response payload: what the handler computed (v, the application state
\* it read) and its serialized size in bytes.
NoPayload == [kind |-> "none", v |-> 0, size |-> 0]
OkPayload(v, size) == [kind |-> "ok", v |-> v, size |-> size]
ErrPayload == [kind |-> "err", v |-> 0, size |-> 1]

\* A payload JSON.stringify throws on (a circular object, a BigInt): it has
\* no serialized size.
Unserializable(v) == [kind |-> "cyc", v |-> v, size |-> 0]

\* CacheValue {value, createdAt, ttl}; exp is the store's own expiry time
\* for the key (0: none).
Absent == [present |-> FALSE, value |-> NoPayload, createdAt |-> 0, ttl |-> 0, exp |-> 0]
CacheValue(value, ttl) ==
  [present |-> TRUE, value |-> value, createdAt |-> now, ttl |-> ttl, exp |-> 0]

\* req.params: the route parameters id and userId (<<>>: not set).
NoParams == [id |-> <<>>, userId |-> <<>>]

\* A request: user is what getUserId(req) returns (<<>>: undefined), routeTtl what
\* getPerRouteTtl(req) returns (-1: undefined).
NoReq ==
  [method |-> "", url |-> <<>>, body |-> BodyUndef, user |-> <<>>, routeTtl |-> -1,
   params |-> NoParams]

PutKey(store, key, val) ==
  [k \in DOMAIN store \cup {key} |-> IF k = key THEN val ELSE store[k]]

DelKeys(store, keys) == [k \in DOMAIN store \ keys |-> store[k]]

EmptyStore == [k \in {} |-> Absent]

-----------------------------------------------------------------------------
(* src/src/store/memoryStore.ts (node-cache) and redisStore.ts (redis)      *)

\* wildcardToRegExp: "*" is any run, every other atom is itself.
RECURSIVE wildcardMatch(_, _)
wildcardMatch(pattern, key) ==
  IF pattern = <<>> THEN key = <<>>
  ELSE IF Head(pattern) = "*"
       THEN wildcardMatch(Tail(pattern), key)
            \/ (key # <<>> /\ wildcardMatch(pattern, Tail(key)))
       ELSE key # <<>> /\ Head(key) = Head(pattern)
            /\ wildcardMatch(Tail(pattern), Tail(key))

\* A store that never expires an entry on its own.
MemoryGetNoExpiry(key) == IF key \in DOMAIN memory THEN memory[key] ELSE Absent

\* node-cache get: an entry whose expiry time is set and lies before now is gone.
MemoryGet(key) ==
  IF key \in DOMAIN memory /\ (memory[key].exp = 0 \/ memory[key].exp >= now)
  THEN memory[key] ELSE Absent

\* node-cache set(key, val, ttl): ttl 0 means no expiry.
MemorySet(key, val, ttlSeconds) ==
  PutKey(memory, key,
         [val EXCEPT !.exp = IF ttlSeconds = 0 THEN 0 ELSE now + ttlSeconds * 1000])

MemoryKeys(pattern) ==
  IF pattern = <<>> \/ pattern = <<"*">> THEN DOMAIN memory
  ELSE {k \in DOMAIN memory : wildcardMatch(pattern, k)}

\* redis GET: a key whose EX time has been reached is gone; any error is a miss.
RedisGet(key) ==
  IF options.redisUp /\ key \in DOMAIN redis /\ now < redis[key].exp
  THEN redis[key] ELSE Absent

\* redis SET key JSON.stringify(val) EX ttl: EX 0 is rejected by the server,
\* JSON.stringify throws on an unserializable value; errors are swallowed.
RedisSet(key, val, ttlSeconds) ==
  IF options.redisUp /\ ttlSeconds > 0 /\ val.value.kind # "cyc"
  THEN PutKey(redis, key, [val EXCEPT !.exp = now + ttlSeconds * 1000])
  ELSE redis

\* SCAN MATCH pattern: live keys matching the glob; [] on error.
RedisKeys(pattern) ==
  IF options.redisUp
  THEN {k \in DOMAIN redis : now < redis[k].exp /\ wildcardMatch(pattern, k)}
  ELSE {}

RedisDel(keys) == IF options.redisUp THEN DelKeys(redis, keys) ELSE redis

-----------------------------------------------------------------------------
(* src/src/middleware.ts                                                   *)

\* stores: memory first, then redis.
Tiers ==
  (IF options.useMemory THEN <<"memory">> ELSE <<>>)
    \o (IF options.useRedis THEN <<"redis">> ELSE <<>>)

StoreGet(tier, key) == IF tier = "memory" THEN MemoryGet(key) ELSE RedisGet(key)

\* The sets issued one after the other, the slow tier first, and given up at
\* the first that fails.
writeThroughInTurn(key, val, ttl) ==
  /\ memory' = IF options.useMemory /\ (options.useRedis => options.redisUp)
                THEN MemorySet(key, val, ttl) ELSE memory
  /\ redis' = IF options.useRedis THEN RedisSet(key, val, ttl) ELSE redis

\* writeThrough: every configured store's set is issued in the same turn.
writeThrough(key, val, ttl) ==
  /\ memory' = IF options.useMemory THEN MemorySet(key, val, ttl) ELSE memory
  /\ redis' = IF options.useRedis THEN RedisSet(key, val, ttl) ELSE redis

RECURSIVE IsPrefix(_, _)
IsPrefix(p, s) ==
  IF p = <<>> THEN TRUE
  ELSE s # <<>> /\ Head(p) = Head(s) /\ IsPrefix(Tail(p), Tail(s))

\* shouldBypass without the check of the caller identity.
shouldBypassAuthBlind(req) ==
  \/ req.method \notin options.methods
  \/ \E p \in options.excludePaths : IsPrefix(p, req.url)
  \/ req.url \in options.skipCache

\* shouldBypass without the check of the excluded paths.
shouldBypassNoExclude(req) ==
  \/ req.method \notin options.methods
  \/ (options.disableAuthCaching /\ req.user # <<>>)
  \/ req.url \in options.skipCache

\* options.skipCache is the set of urls skipCachePredicate accepts.
shouldBypass(req) ==
  \/ req.method \notin options.methods
  \/ \E p \in options.excludePaths : IsPrefix(p, req.url)
  \/ (options.disableAuthCaching /\ req.user # <<>>)
  \/ req.url \in options.skipCache

\* getPerRouteTtl(req) ?? options.ttl
Ttl(req) == IF req.routeTtl >= 0 THEN req.routeTtl ELSE options.ttl

WriteMethods == {"POST", "PUT", "PATCH", "DELETE"}

\* url.split('?')[0] || url
pathOnly(url) == IF Before(url, "?") = <<>> THEN url ELSE Before(url, "?")

\* The patterns handleInvalidateOnWrite sweeps, in order.
invalidationPatterns(req) ==
  << buildCacheKey(req),
     <<"GET", ":">> \o pathOnly(req.url) \o <<":", "*", ":", "*", ":">> \o userIdOrAnon(req),
     <<"POST", ":">> \o pathOnly(req.url) \o <<":", "*", ":", "*", ":">> \o userIdOrAnon(req) >>
  \o options.extraPatterns

\* invalidateByPattern, first half: every store's keys(pattern).
keysOfStores(pattern) ==
  [m |-> IF options.useMemory THEN MemoryKeys(pattern) ELSE {},
   r |-> IF options.useRedis THEN RedisKeys(pattern) ELSE {}]

\* The age compared in milliseconds: the division by 1000 left out.
isExpiredMs(cached, ttl) == (now - cached.createdAt) >= ttl

\* The comparison made strict: an entry of age equal to the TTL passes as fresh.
isExpiredStrict(cached, ttl) == ((now - cached.createdAt) \div 1000) > ttl

\* Math.floor((Date.now() - createdAt) / 1000) >= ttl
isExpired(cached, ttl) == ((now - cached.createdAt) \div 1000) >= ttl

\* early, lapse, at, wrote and seen are history fields: whether the call began
\* before anything was stored or captured for the key, how old the fast tier's
\* entry was when the call began, the time at which line 193 ran, the
\* CacheValue the call's background refresh handed to writeThrough, and, for
\* a write, the calls whose handler invocation was in progress when its
\* invalidation completed.
InitReq ==
  [pc |-> "idle", req |-> NoReq, key |-> <<>>, tier |-> 0,
   early |-> FALSE, lapse |-> "none", at |-> -1, wrote |-> Absent,
   cached |-> Absent, promise |-> 0, body |-> NoPayload, xcache |-> FALSE,
   nexts |-> 0, errs |-> 0, patched |-> FALSE, captured |-> FALSE,
   handler |-> "none", todo |-> <<>>, snap |-> [m |-> {}, r |-> {}], seen |-> {}]

NoPromise == [st |-> "none", kind |-> "none", key |-> <<>>, val |-> NoPayload]

-----------------------------------------------------------------------------
(* The middleware call for request r, step by step.  A step runs from one  *)
(* suspension point (an awaited store operation, the awaited promise, a    *)
(* timer) to the next.  A store operation takes effect when it is issued.  *)

\* return next(): the request goes downstream with its own response object.
\* The handler of a write changes the application state.
PassDownstream(r, rq) ==
  /\ reqs' = [reqs EXCEPT ![r] = [rq EXCEPT !.pc = "done", !.nexts = @ + 1]]
  /\ data' = IF rq.req.method \in WriteMethods THEN data + 1 ELSE data

\* readThrough that goes on to the next tier after a hit.
ReadTierToLast(rq, i) ==
  IF Tiers = <<>> THEN [rq EXCEPT !.pc = "resume", !.cached = Absent]
  ELSE IF i = Len(Tiers)
       THEN [rq EXCEPT !.pc = "resume", !.cached = StoreGet(Tiers[i], rq.key)]
       ELSE [rq EXCEPT !.pc = "read", !.tier = i + 1]

\* readThrough from tier i on: the get of tier i is issued now.
ReadTier(rq, i) ==
  IF Tiers = <<>> THEN [rq EXCEPT !.pc = "resume", !.cached = Absent]
  ELSE LET val == StoreGet(Tiers[i], rq.key)
       IN IF val.present \/ i = Len(Tiers)
          THEN [rq EXCEPT !.pc = "resume", !.cached = val]
          ELSE [rq EXCEPT !.pc = "read", !.tier = i + 1]

\* No tier holds the key and no response for it has been captured.
NothingYet(key) ==
  /\ key \notin DOMAIN memory
  /\ key \notin DOMAIN redis
  /\ \A o \in ReqIds : reqs[o].key = key => ~reqs[o].captured

\* The time since the createdAt of the fast tier's entry for the key, against
\* the TTL of the request: "within" (less), "at" (equal), "past" (more).
Lapse(key, ttl) ==
  IF key \notin DOMAIN memory THEN "none"
  ELSE IF now - memory[key].createdAt < ttl * 1000 THEN "within"
  ELSE IF now - memory[key].createdAt = ttl * 1000 THEN "at"
  ELSE "past"

\* middleware lines 178-189: bypass check, key, first store read.
CachePath(r, rq) ==
  IF shouldBypass(rq.req) THEN PassDownstream(r, rq)
  ELSE LET key == buildCacheKey(rq.req)
       IN /\ reqs' = [reqs EXCEPT ![r] =
                ReadTier([rq EXCEPT !.key = key, !.early = NothingYet(key),
                                    !.lapse = Lapse(key, Ttl(rq.req))], 1)]
          /\ data' = data

\* middleware(req, res, next) is called: lines 165-189 up to the first await.
Begin(r, q) ==
  /\ reqs[r].pc = "idle"
  /\ IF r = 1 THEN TRUE ELSE reqs[r - 1].pc # "idle"
  /\ LET rq == [reqs[r] EXCEPT !.req = q]
     IN IF q.method \in WriteMethods
        THEN /\ reqs' = [reqs EXCEPT ![r] =
                  IF options.invalidateOnWrite
                  THEN [rq EXCEPT !.pc = "invalidate",
                                  !.snap = keysOfStores(invalidationPatterns(q)[1]),
                                  !.todo = Tail(invalidationPatterns(q))]
                  ELSE [rq EXCEPT !.pc = "invalidated"]]
             /\ data' = data
        ELSE CachePath(r, rq)
  /\ UNCHANGED <<options, now, memory, redis, hits, misses, pendingRequests, promises,
               auxvars>>

\* invalidateByPattern, second half (the dels of the keys found), then the
\* keys() of the next pattern.  After the sweep of the POST pattern line 100
\* calls getInvalidationPatterns: when it throws, handleInvalidateOnWrite
\* rejects and so does the middleware call that awaits it at line 170, which
\* has no try around it: the call ends without next().
InvalidateStep(r) ==
  /\ reqs[r].pc = "invalidate"
  /\ memory' = DelKeys(memory, reqs[r].snap.m)
  /\ redis' = RedisDel(reqs[r].snap.r)
  /\ reqs' = [reqs EXCEPT ![r] =
        IF options.patternsRaise /\ Len(reqs[r].todo) = Len(options.extraPatterns)
        THEN [@ EXCEPT !.pc = "rejected", !.todo = <<>>, !.snap = [m |-> {}, r |-> {}]]
        ELSE IF reqs[r].todo = <<>>
        THEN [@ EXCEPT !.pc = "invalidated", !.snap = [m |-> {}, r |-> {}],
                       !.seen = {o \in ReqIds : reqs[o].handler \in {"running", "refreshing"}}]
        ELSE [@ EXCEPT !.todo = Tail(@),
                       !.snap = [m |-> IF options.useMemory
                                       THEN {k \in DOMAIN memory' : Head(reqs[r].todo) = <<"*">>
                                               \/ wildcardMatch(Head(reqs[r].todo), k)}
                                       ELSE {},
                                 r |-> IF options.useRedis /\ options.redisUp
                                       THEN {k \in DOMAIN redis' : now < redis'[k].exp
                                               /\ wildcardMatch(Head(reqs[r].todo), k)}
                                       ELSE {}]]]
  /\ UNCHANGED <<options, now, hits, misses, pendingRequests, promises, data, auxvars>>

\* Lines 172-176 without the return: every write goes on to the cache path.
AfterInvalidateCached(r) ==
  /\ reqs[r].pc = "invalidated"
  /\ CachePath(r, reqs[r])
  /\ UNCHANGED <<options, now, memory, redis, hits, misses, pendingRequests, promises,
               auxvars>>

\* middleware lines 172-176: after handleInvalidateOnWrite.
AfterInvalidate(r) ==
  /\ reqs[r].pc = "invalidated"
  /\ IF reqs[r].req.method # "POST" \/ ~options.cachePost
     THEN PassDownstream(r, reqs[r])
     ELSE CachePath(r, reqs[r])
  /\ UNCHANGED <<options, now, memory, redis, hits, misses, pendingRequests, promises,
               auxvars>>

\* readThrough: the get of the next tier.
Read(r) ==
  /\ reqs[r].pc = "read"
  /\ reqs' = [reqs EXCEPT ![r] = ReadTier(@, @.tier)]
  /\ UNCHANGED <<options, now, memory, redis, hits, misses, pendingRequests, promises, data,
               auxvars>>

\* The payload sent without the header.
sendCachedResponseBare(rq, payload) ==
  IF rq.body # NoPayload THEN rq ELSE [rq EXCEPT !.body = payload]

\* sendCachedResponse
sendCachedResponse(rq, payload) ==
  IF rq.body # NoPayload THEN rq
  ELSE [rq EXCEPT !.xcache = TRUE, !.body = payload]

\* middleware lines 191-210, a fresh or stale hit that is answered from the
\* store; refreshInBackground registers its promise in the same turn.
ResumeHit(r) ==
  LET rq == reqs[r]
      stale == isExpired(rq.cached, Ttl(rq.req))
      refresh == stale /\ rq.key \notin DOMAIN pendingRequests
  IN /\ rq.pc = "resume"
     /\ rq.cached.present
     /\ ~stale \/ options.staleWhileRevalidate
     /\ hits' = hits + 1
     /\ reqs' = [reqs EXCEPT ![r] =
           [sendCachedResponse(rq, rq.cached.value) EXCEPT
               !.pc = "done", !.at = now, !.handler = IF refresh THEN "scheduled" ELSE @]]
     /\ promises' = IF refresh
                    THEN [promises EXCEPT ![r] =
                            [st |-> "pending", kind |-> "refresh", key |-> rq.key,
                             val |-> NoPayload]]
                    ELSE promises
     /\ pendingRequests' = IF refresh THEN PutKey(pendingRequests, rq.key, r)
                           ELSE pendingRequests
     /\ UNCHANGED <<options, now, memory, redis, misses, data, auxvars>>

\* middleware lines 191-273, the fetch path: nothing stored, or an expired
\* entry without stale-while-revalidate.  A request that finds a registered
\* promise awaits it; otherwise it patches res, calls next() and registers
\* its promise.  next() throws when the handler raises.
ResumeFetch(r, raises) ==
  LET rq == reqs[r]
      leader == rq.key \notin DOMAIN pendingRequests
  IN /\ rq.pc = "resume"
     /\ ~rq.cached.present
        \/ (isExpired(rq.cached, Ttl(rq.req)) /\ ~options.staleWhileRevalidate)
     /\ leader \/ ~raises
     /\ hits' = IF rq.cached.present THEN hits + 1 ELSE hits
     /\ misses' = IF rq.cached.present THEN misses ELSE misses + 1
     /\ IF leader
        THEN /\ reqs' = [reqs EXCEPT ![r] =
                   [rq EXCEPT !.pc = "await", !.promise = r, !.patched = TRUE,
                              !.at = now,
                              !.nexts = @ + 1,
                              !.handler = IF raises THEN "done" ELSE "running"]]
             /\ promises' = [promises EXCEPT ![r] =
                   [st |-> IF raises THEN "rejected" ELSE "pending", kind |-> "fetch",
                    key |-> rq.key, val |-> NoPayload]]
             /\ pendingRequests' = PutKey(pendingRequests, rq.key, r)
        ELSE /\ reqs' = [reqs EXCEPT ![r] =
                   [rq EXCEPT !.pc = "await", !.promise = pendingRequests[rq.key],
                              !.at = now]]
             /\ UNCHANGED <<promises, pendingRequests>>
     /\ UNCHANGED <<options, now, memory, redis, data, auxvars>>

\* getPayloadSize: the byte length of the serialized payload, 0 when
\* JSON.stringify throws.
getPayloadSize(payload) == IF payload.kind = "cyc" THEN 0 ELSE payload.size

\* captureAndCache(payload) on the leader's patched res.json / res.send,
\* followed by the original res.json / res.send.
CaptureAndSend(r, payload) ==
  LET rq == reqs[r]
      first == ~rq.captured
  IN /\ IF first /\ getPayloadSize(payload) <= options.maxPayloadSize
        THEN writeThrough(rq.key, CacheValue(payload, Ttl(rq.req)), Ttl(rq.req))
        ELSE UNCHANGED <<memory, redis>>
     /\ promises' = IF first /\ promises[r].st = "pending"
                    THEN [promises EXCEPT ![r].st = "resolved", ![r].val = payload]
                    ELSE promises
     /\ reqs' = [reqs EXCEPT ![r] =
           [rq EXCEPT !.captured = TRUE, !.handler = "done",
                      !.body = IF @ = NoPayload THEN payload ELSE @]]

\* The leader's handler answers with res.json(payload) / res.send(payload).
HandlerJson(r, size) ==
  /\ reqs[r].handler = "running"
  /\ reqs[r].patched
  /\ CaptureAndSend(r, OkPayload(data, size))
  /\ UNCHANGED <<options, now, hits, misses, pendingRequests, data, auxvars>>

\* The leader's handler answers with res.json(payload), payload being an
\* object that cannot be serialized.
HandlerJsonCyclic(r) ==
  /\ reqs[r].handler = "running"
  /\ reqs[r].patched
  /\ CaptureAndSend(r, Unserializable(data))
  /\ UNCHANGED <<options, now, hits, misses, pendingRequests, data, auxvars>>

\* The leader's handler answers with res.end(): not intercepted.
HandlerEnd(r) ==
  /\ reqs[r].handler = "running"
  /\ reqs[r].patched
  /\ reqs' = [reqs EXCEPT ![r].handler = "done",
                          ![r].body = IF @ = NoPayload THEN OkPayload(data, 1) ELSE @]
  /\ UNCHANGED <<options, now, memory, redis, hits, misses, pendingRequests, promises, data,
               auxvars>>

\* The chain .catch(delete; rethrow).finally(delete) of a resolved promise:
\* the catch is skipped and the finally callback deletes the key.
Settle(p) ==
  /\ promises[p].st = "resolved"
  /\ pendingRequests' = DelKeys(pendingRequests, {promises[p].key})
  /\ promises' = [promises EXCEPT ![p].st = "settledOk"]
  /\ UNCHANGED <<options, now, memory, redis, hits, misses, reqs, data,
                 auxvars>>

\* The catch callback of a rejected promise: delete the key, rethrow.
CatchDelete(p) ==
  /\ promises[p].st = "rejected"
  /\ pendingRequests' = DelKeys(pendingRequests, {promises[p].key})
  /\ promises' = [promises EXCEPT ![p].st = "caught"]
  /\ UNCHANGED <<options, now, memory, redis, hits, misses, reqs, data,
                 auxvars>>

\* The finally callback after the catch: delete the key again, whichever
\* promise is registered under it by now.
FinallyDelete(p) ==
  /\ promises[p].st = "caught"
  /\ pendingRequests' = DelKeys(pendingRequests, {promises[p].key})
  /\ promises' = [promises EXCEPT ![p].st = "settledErr"]
  /\ UNCHANGED <<options, now, memory, redis, hits, misses, reqs, data,
                 auxvars>>

\* middleware lines 272-277: await pending returns or throws.
AwaitDone(r) ==
  /\ reqs[r].pc = "await"
  /\ promises[reqs[r].promise].st \in {"settledOk", "settledErr"}
  /\ reqs' = [reqs EXCEPT ![r].pc = "done",
                          ![r].errs = IF promises[reqs[r].promise].st = "settledErr"
                                      THEN @ + 1 ELSE @]
  /\ UNCHANGED <<options, now, memory, redis, hits, misses, pendingRequests, promises, data,
               auxvars>>

\* After next(e) the framework's error handler answers on the request's res
\* with res.json / res.send: on the leader's res these are still patched.
ErrorEmit(r) ==
  /\ reqs[r].pc = "done"
  /\ reqs[r].errs > 0
  /\ reqs[r].body = NoPayload
  /\ IF reqs[r].patched
     THEN CaptureAndSend(r, ErrPayload)
     ELSE /\ reqs' = [reqs EXCEPT ![r].body = ErrPayload]
          /\ UNCHANGED <<memory, redis, promises>>
  /\ UNCHANGED <<options, now, hits, misses, pendingRequests, data, auxvars>>

\* refreshInBackground, the setImmediate callback: next.call(null, mockReq,
\* mockRes, ...); resolve() when it throws.
RefreshInvoke(r, raises) ==
  /\ reqs[r].handler = "scheduled"
  /\ reqs' = [reqs EXCEPT ![r].nexts = @ + 1,
                          ![r].handler = IF raises THEN "done" ELSE "refreshing"]
  /\ promises' = IF raises THEN [promises EXCEPT ![r].st = "resolved"] ELSE promises
  /\ UNCHANGED <<options, now, memory, redis, hits, misses, pendingRequests, data,
               auxvars>>

\* mockRes.json / mockRes.send
RefreshJson(r, size) ==
  /\ reqs[r].handler = "refreshing"
  /\ writeThrough(reqs[r].key, CacheValue(OkPayload(data, size), Ttl(reqs[r].req)),
                  Ttl(reqs[r].req))
  /\ promises' = [promises EXCEPT ![r].st = "resolved"]
  /\ reqs' = [reqs EXCEPT ![r].handler = "done",
                          ![r].wrote = CacheValue(OkPayload(data, size), Ttl(reqs[r].req))]
  /\ UNCHANGED <<options, now, hits, misses, pendingRequests, data, auxvars>>

\* mockRes.end
RefreshEnd(r) ==
  /\ reqs[r].handler = "refreshing"
  /\ promises' = [promises EXCEPT ![r].st = "resolved"]
  /\ reqs' = [reqs EXCEPT ![r].handler = "done"]
  /\ UNCHANGED <<options, now, memory, redis, hits, misses, pendingRequests, data,
               auxvars>>

\* Time passes; the clock is read from the first request on.
Tick ==
  /\ reqs[1].pc # "idle"
  /\ now < MaxTicks * TickMs
  /\ now' = now + TickMs
  /\ UNCHANGED <<options, memory, redis, hits, misses, pendingRequests, promises, reqs, data,
               auxvars>>

-----------------------------------------------------------------------------
(* src/src/utils/invalidation.ts: PatternInvalidationEngine.  Patterns and  *)
(* keys are atom texts; an atom "{name}" is a placeholder.  The patterns    *)
(* used hold no regular-expression metacharacter other than "*".            *)

Placeholders == {"{userId}", "{path}", "{id}"}

\* String.prototype.replace(/a/g, t)
RECURSIVE ReplaceAll(_, _, _)
ReplaceAll(s, a, t) ==
  IF s = <<>> THEN <<>>
  ELSE (IF Head(s) = a THEN t ELSE <<Head(s)>>) \o ReplaceAll(Tail(s), a, t)

\* expanded.replace(':anon', ':*'): the first occurrence only.
RECURSIVE ReplaceFirstAnon(_)
ReplaceFirstAnon(p) ==
  IF Len(p) < 2 THEN p
  ELSE IF p[1] = ":" /\ p[2] = "anon" THEN <<":", "*">> \o SubSeq(p, 3, Len(p))
  ELSE <<p[1]>> \o ReplaceFirstAnon(Tail(p))

\* normalizePath: path.split('?')[0]
normalizePath(path) == Before(path, "?")

\* extractPathParameters: the id and userId route parameters.
extractPathParameters(req) == req.params

\* matchPathPattern: "*" is any run, a placeholder is a non-empty run without "/".
RECURSIVE matchPathPattern(_, _)
matchPathPattern(path, pattern) ==
  IF pattern = <<>> THEN path = <<>>
  ELSE IF Head(pattern) = "*"
       THEN matchPathPattern(path, Tail(pattern))
            \/ (path # <<>> /\ matchPathPattern(Tail(path), pattern))
  ELSE IF Head(pattern) \in Placeholders
       THEN path # <<>> /\ Head(path) # "/"
            /\ (matchPathPattern(Tail(path), Tail(pattern))
                \/ matchPathPattern(Tail(path), pattern))
  ELSE path # <<>> /\ Head(path) = Head(pattern)
       /\ matchPathPattern(Tail(path), Tail(pattern))

\* ruleMatches, for a rule whose pathPattern is a string and that has no condition.
ruleMatches(req, rule) ==
  /\ req.method \in rule.methods
  /\ matchPathPattern(req.url, rule.pathPattern)

RECURSIVE SelectRules(_, _)
SelectRules(req, rules) ==
  IF rules = <<>> THEN <<>>
  ELSE (IF ruleMatches(req, Head(rules)) THEN <<Head(rules)>> ELSE <<>>)
       \o SelectRules(req, Tail(rules))

\* A rule field that is left unset.
Undefined == "undefined"

\* The path segments that pass /^(\d+|<uuid>|[a-zA-Z0-9]{6,})$/: a number,
\* and a word of six letters or more.
IdLike == {"1", "orders"}

\* looksLikeId
looksLikeId(str) == Len(str) = 1 /\ str[1] \in IdLike

\* cleanPath.split('/').filter(Boolean)
RECURSIVE FilterBoolean(_)
FilterBoolean(parts) ==
  IF parts = <<>> THEN <<>>
  ELSE (IF Head(parts) = <<>> THEN <<>> ELSE <<Head(parts)>>) \o FilterBoolean(Tail(parts))

pathPartsOf(path) == FilterBoolean(Split(Before(path, "?"), "/"))

\* getCollectionPath: the path without its last segment when that one looks
\* like an id, else null (ok FALSE).
getCollectionPath(path) ==
  LET pathParts == pathPartsOf(path)
  IN IF pathParts # <<>> /\ looksLikeId(pathParts[Len(pathParts)])
     THEN [ok |-> TRUE,
           path |-> <<"/">> \o Join(SubSeq(pathParts, 1, Len(pathParts) - 1), "/")]
     ELSE [ok |-> FALSE, path |-> <<>>]

\* getParentPaths: for every segment but the first, from the last one down,
\* that does not look like an id, the path in front of it.
RECURSIVE ParentsFrom(_, _)
ParentsFrom(pathParts, i) ==
  IF i <= 1 THEN <<>>
  ELSE (IF looksLikeId(pathParts[i]) THEN <<>>
        ELSE << <<"/">> \o Join(SubSeq(pathParts, 1, i - 1), "/") >>)
       \o ParentsFrom(pathParts, i - 1)

getParentPaths(path) == ParentsFrom(pathPartsOf(path), Len(pathPartsOf(path)))

AutoRule(method, path, patterns) ==
  [methods |-> {method}, pathPattern |-> path, invalidatePatterns |-> patterns,
   invalidateMethods |-> {Undefined}, respectUserScope |-> Undefined]

RECURSIVE ParentPatterns(_)
ParentPatterns(parents) ==
  IF parents = <<>> THEN <<>>
  ELSE << <<"GET", ":">> \o Head(parents) \o <<"*">> >> \o ParentPatterns(Tail(parents))

\* generateRestRules: the collection rule, the item rule and the parent rule.
generateRestRules(req) ==
  LET path == req.url
      method == req.method
      collectionPath == getCollectionPath(path)
      parentPaths == getParentPaths(path)
  IN IF method \notin {"POST", "PUT", "PATCH", "DELETE"} THEN <<>>
     ELSE (IF collectionPath.ok
           THEN << AutoRule(method, path,
                     << <<"GET", ":">> \o collectionPath.path \o <<"*">>,
                        <<"GET", ":">> \o collectionPath.path
                          \o <<":", "*", ":", "*", ":", "*">> >>) >>
           ELSE <<>>)
          \o (IF method \in {"PUT", "PATCH", "DELETE"}
              THEN << AutoRule(method, path, << <<"GET", ":">> \o path \o <<"*">> >>) >>
              ELSE <<>>)
          \o (IF parentPaths # <<>>
              THEN << AutoRule(method, path, ParentPatterns(parentPaths)) >>
              ELSE <<>>)

\* getApplicableRules: the auto-generated REST rules, then the configured
\* rules that match the request.
getApplicableRules(req) ==
  (IF options.autoGenerateRestRules THEN generateRestRules(req) ELSE <<>>)
    \o SelectRules(req, options.invalidationRules)

\* expandPattern
expandPattern(pattern, req, userId, respectUserScope) ==
  LET pathParams == extractPathParameters(req)
      byId == IF pathParams.id # <<>>
              THEN ReplaceAll(pattern, "{id}", pathParams.id) ELSE pattern
      byParam == IF pathParams.userId # <<>>
                 THEN ReplaceAll(byId, "{userId}", pathParams.userId) ELSE byId
      byUser == ReplaceAll(byParam, "{userId}", IF userId = <<>> THEN <<"anon">> ELSE userId)
      expanded == ReplaceAll(byUser, "{path}", normalizePath(req.url))
  IN IF respectUserScope /\ userId # <<>> THEN <<expanded>>
     ELSE IF ReplaceFirstAnon(expanded) # expanded
          THEN <<expanded, ReplaceFirstAnon(expanded)>>
          ELSE <<expanded>>

\* keyMatchesPattern: "*" is any run, a placeholder left in the pattern is a
\* run without ":".
RECURSIVE keyMatchesPattern(_, _)
keyMatchesPattern(key, pattern) ==
  IF pattern = <<>> THEN key = <<>>
  ELSE IF Head(pattern) = "*"
       THEN keyMatchesPattern(key, Tail(pattern))
            \/ (key # <<>> /\ keyMatchesPattern(Tail(key), pattern))
  ELSE IF Head(pattern) \in Placeholders
       THEN keyMatchesPattern(key, Tail(pattern))
            \/ (key # <<>> /\ Head(key) # ":" /\ keyMatchesPattern(Tail(key), pattern))
  ELSE key # <<>> /\ Head(key) = Head(pattern)
       /\ keyMatchesPattern(Tail(key), Tail(pattern))

\* parseCacheKey: null unless the key splits into exactly five parts.
parseCacheKey(key) ==
  LET parts == Split(key, ":")
  IN IF Len(parts) # 5
     THEN [ok |-> FALSE, method |-> <<>>, path |-> <<>>, query |-> <<>>,
           bodyHash |-> <<>>, userId |-> <<>>]
     ELSE [ok |-> TRUE, method |-> parts[1], path |-> parts[2], query |-> parts[3],
           bodyHash |-> parts[4], userId |-> parts[5]]

\* The filter without its user scoping (lines 284-287 left out).
matchingKeysAnyUser(keys, pattern, targetMethods, respectUserScope, currentUserId) ==
  {key \in keys :
     /\ parseCacheKey(key).ok
     /\ parseCacheKey(key).method \in {<<m>> : m \in targetMethods}
     /\ keyMatchesPattern(key, pattern)}

\* The filter without the check of the key's method.
matchingKeysAnyMethod(keys, pattern, targetMethods, respectUserScope, currentUserId) ==
  {key \in keys :
     /\ parseCacheKey(key).ok
     /\ keyMatchesPattern(key, pattern)
     /\ ~(/\ respectUserScope = "true"
          /\ currentUserId # <<>>
          /\ parseCacheKey(key).userId # currentUserId)}

\* invalidateByPattern, the filter over one store's keys (lines 273-290).
matchingKeys(keys, pattern, targetMethods, respectUserScope, currentUserId) ==
  {key \in keys :
     /\ parseCacheKey(key).ok
     /\ parseCacheKey(key).method \in {<<m>> : m \in targetMethods}
     /\ keyMatchesPattern(key, pattern)
     /\ ~(/\ respectUserScope = "true"
          /\ currentUserId # <<>>
          /\ parseCacheKey(key).userId # currentUserId)}

\* rule.invalidateMethods || ['GET']
targetMethodsOf(rule) ==
  IF rule.invalidateMethods = {Undefined} THEN {"GET"} ELSE rule.invalidateMethods

\* processRule's loops without the check of context.processed.
RECURSIVE SweepPatternsNoDedup(_, _, _, _)
SweepPatternsNoDedup(todo, rule, userId, acc) ==
  IF todo = <<>> THEN acc
  ELSE LET dm == IF options.useMemory
                 THEN matchingKeys(DOMAIN acc.m, Head(todo), targetMethodsOf(rule),
                                   rule.respectUserScope, userId)
                 ELSE {}
           dr == IF options.useRedis /\ options.redisUp
                 THEN matchingKeys({k \in DOMAIN acc.r : now < acc.r[k].exp}, Head(todo),
                                   targetMethodsOf(rule), rule.respectUserScope, userId)
                 ELSE {}
       IN SweepPatternsNoDedup(Tail(todo), rule, userId,
            [m |-> DelKeys(acc.m, dm), r |-> DelKeys(acc.r, dr),
             processed |-> acc.processed \cup {Head(todo)},
             deleted |-> acc.deleted \cup dm \cup dr,
             sweeps |-> Append(acc.sweeps, Head(todo))])

\* processRule, the two loops: every expanded pattern that context.processed
\* does not hold yet is swept over every store.  acc carries the stores, the
\* processed set, the keys deleted and the patterns swept so far.
RECURSIVE SweepPatterns(_, _, _, _)
SweepPatterns(todo, rule, userId, acc) ==
  IF todo = <<>> THEN acc
  ELSE IF Head(todo) \in acc.processed THEN SweepPatterns(Tail(todo), rule, userId, acc)
  ELSE LET dm == IF options.useMemory
                 THEN matchingKeys(DOMAIN acc.m, Head(todo), targetMethodsOf(rule),
                                   rule.respectUserScope, userId)
                 ELSE {}
           dr == IF options.useRedis /\ options.redisUp
                 THEN matchingKeys({k \in DOMAIN acc.r : now < acc.r[k].exp}, Head(todo),
                                   targetMethodsOf(rule), rule.respectUserScope, userId)
                 ELSE {}
       IN SweepPatterns(Tail(todo), rule, userId,
            [m |-> DelKeys(acc.m, dm), r |-> DelKeys(acc.r, dr),
             processed |-> acc.processed \cup {Head(todo)},
             deleted |-> acc.deleted \cup dm \cup dr,
             sweeps |-> Append(acc.sweeps, Head(todo))])

RECURSIVE ExpandAll(_, _, _, _)
ExpandAll(patterns, req, userId, respectUserScope) ==
  IF patterns = <<>> THEN <<>>
  ELSE expandPattern(Head(patterns), req, userId, respectUserScope)
       \o ExpandAll(Tail(patterns), req, userId, respectUserScope)

NoPass == [pc |-> "idle", req |-> NoReq, queue |-> <<>>, processed |-> {}, log |-> <<>>]

\* invalidate(req, stores, options, getUserId) up to the first rule:
\* performInvalidation's depth check (context.depth is 0) and rule selection.
invalidate(q) ==
  /\ inv.pc = "idle"
  /\ inv' = IF 0 >= options.maxInvalidationDepth \/ getApplicableRules(q) = <<>>
            THEN [NoPass EXCEPT !.req = q]
            ELSE [NoPass EXCEPT !.pc = "rules", !.req = q, !.queue = getApplicableRules(q)]
  /\ UNCHANGED <<options, now, memory, redis, hits, misses, pendingRequests, promises, reqs,
                 data, reqA, reqB, keyA, keyB, twin, cleared>>

\* processRule for the next applicable rule.  log records, rule by rule, the
\* caller, the expanded patterns, the ones swept and the keys deleted.
processRule ==
  /\ inv.pc = "rules"
  /\ \E rule \in {Head(inv.queue)}, userId \in {inv.req.user} :
     \E todo \in {ExpandAll(rule.invalidatePatterns, inv.req, userId,
                            rule.respectUserScope # "false")} :
     \E out \in {SweepPatterns(todo, rule, userId,
                   [m |-> memory, r |-> redis, processed |-> inv.processed, deleted |-> {},
                    sweeps |-> <<>>])} :
        /\ memory' = out.m
        /\ redis' = out.r
        /\ inv' = [inv EXCEPT
              !.queue = Tail(@),
              !.pc = IF Len(inv.queue) = 1 THEN "idle" ELSE "rules",
              !.processed = out.processed,
              !.log = Append(@, [rule |-> rule, user |-> userId, patterns |-> todo,
                                 deleted |-> out.deleted, swept |-> out.sweeps])]
  /\ UNCHANGED <<options, now, hits, misses, pendingRequests, promises, reqs, data,
                 reqA, reqB, keyA, keyB, twin, cleared>>

\* A response for GET request q has been captured: captureAndCache's store write.
StoreResponse(q) ==
  /\ writeThrough(buildCacheKey(q), CacheValue(OkPayload(data, SmallLimit), Ttl(q)), Ttl(q))
  /\ UNCHANGED <<options, now, hits, misses, pendingRequests, promises, reqs, data, auxvars>>

-----------------------------------------------------------------------------
(* The middleware under concurrent requests.                               *)

defaultConfig ==
  [ttl |-> 1, methods |-> {"GET", "POST"}, useMemory |-> TRUE, useRedis |-> FALSE,
   redisUp |-> TRUE, invalidateOnWrite |-> TRUE, staleWhileRevalidate |-> TRUE,
   excludePaths |-> {}, maxPayloadSize |-> SmallLimit, skipCache |-> {},
   disableAuthCaching |-> FALSE, cachePost |-> FALSE, extraPatterns |-> <<>>,
   patternsRaise |-> FALSE, invalidationRules |-> <<>>, maxInvalidationDepth |-> 3,
   autoGenerateRestRules |-> FALSE]

\* What a run shows to its callers and leaves behind: per call the response
\* (payload and X-Cache header), the downstream invocations, the errors
\* handed to next(e) and how the middleware call ended; the fast tier's
\* contents; the application's state.
Observed ==
  [calls |-> [r \in ReqIds |-> [body |-> reqs[r].body, xcache |-> reqs[r].xcache,
                                nexts |-> reqs[r].nexts, errs |-> reqs[r].errs,
                                pc |-> reqs[r].pc]],
   memory |-> memory, data |-> data]

NoTwin == [script |-> <<>>, first |-> <<>>]

\* No clearCache call made yet.
NoClear ==
  [n |-> 0, pattern |-> <<>>, memory |-> EmptyStore, redis |-> EmptyStore,
   hits |-> 0, misses |-> 0, pendingRequests |-> [k \in {} |-> 0]]

AuxIdle ==
  /\ inv = NoPass
  /\ reqA = NoReq /\ reqB = NoReq /\ keyA = <<>> /\ keyB = <<>>
  /\ twin = NoTwin
  /\ cleared = NoClear

InitWith(optionSets) ==
  /\ options \in optionSets
  /\ now = 0
  /\ memory = EmptyStore
  /\ redis = EmptyStore
  /\ hits = 0
  /\ misses = 0
  /\ pendingRequests = [k \in {} |-> 0]
  /\ promises = [p \in ReqIds |-> NoPromise]
  /\ reqs = [r \in ReqIds |-> InitReq]
  /\ data = 0

Sizes == {SmallLimit, SmallLimit + 1}

\* What happens once requests are in: shared by the specifications below.
Steps ==
  \/ \E r \in ReqIds : Read(r)
  \/ \E r \in ReqIds : ResumeHit(r)
  \/ \E r \in ReqIds, raises \in BOOLEAN : ResumeFetch(r, raises)
  \/ \E r \in ReqIds, size \in Sizes : HandlerJson(r, size)
  \/ \E r \in ReqIds : HandlerEnd(r)
  \/ \E p \in ReqIds : Settle(p)
  \/ \E p \in ReqIds : CatchDelete(p)
  \/ \E p \in ReqIds : FinallyDelete(p)
  \/ \E r \in ReqIds : AwaitDone(r)
  \/ \E r \in ReqIds : ErrorEmit(r)
  \/ \E r \in ReqIds, raises \in BOOLEAN : RefreshInvoke(r, raises)
  \/ \E r \in ReqIds, size \in Sizes : RefreshJson(r, size)
  \/ \E r \in ReqIds : RefreshEnd(r)

(* Concurrent reads and writes of one resource, through both tiers.        *)

Urls == { <<"/", "a">>, <<"/", ".", "/", "a">> }

Requests ==
  { [method |-> m, url |-> u, body |-> BodyUndef, user |-> <<>>, routeTtl |-> -1,
     params |-> NoParams] :
      m \in {"GET", "POST"}, u \in Urls }

OptionSets ==
  { [defaultConfig EXCEPT !.useRedis = ur] : ur \in BOOLEAN }

\* The requests whose url has no dot segment.
CanonicalRequests == {q \in Requests : normalizeUrl(q.url) = q.url}

Start(r, q) == r <= MaxReqs /\ Begin(r, q)

Init == InitWith(OptionSets) /\ AuxIdle

Next ==
  \/ \E r \in ReqIds, q \in CanonicalRequests : Start(r, q)
  \/ \E r \in ReqIds : InvalidateStep(r)
  \/ \E r \in ReqIds : AfterInvalidate(r)
  \/ Steps
  \/ Tick

Spec == Init /\ [][Next]_vars

(* Concurrent GETs of one resource.                                        *)

GetRequest ==
  [method |-> "GET", url |-> <<"/", "a">>, body |-> BodyUndef, user |-> <<>>, routeTtl |-> -1,
   params |-> NoParams]

GetOptionSets ==
  { [defaultConfig EXCEPT !.ttl = 0],
    [defaultConfig EXCEPT !.ttl = 0, !.staleWhileRevalidate = FALSE],
    [defaultConfig EXCEPT !.useRedis = TRUE] }

StartGet(r) == r <= MaxGets /\ Begin(r, GetRequest)

InitGet == InitWith(GetOptionSets) /\ AuxIdle

NextGet ==
  \/ \E r \in ReqIds : StartGet(r)
  \/ Steps

SpecGet == InitGet /\ [][NextGet]_vars

(* One request at a time: a call begins when every earlier call has been  *)
(* answered and nothing it started is still running.                       *)

Quiescent ==
  \A r \in ReqIds :
    /\ reqs[r].pc \in {"idle", "done", "rejected"}
    /\ reqs[r].handler \in {"none", "done"}
    /\ promises[r].st \in {"none", "settledOk", "settledErr"}
    /\ reqs[r].errs > 0 => reqs[r].body # NoPayload

StartSeq(r, q) == r <= MaxReqs /\ Quiescent /\ Begin(r, q)

NextSeq ==
  \/ \E r \in ReqIds, q \in Requests : StartSeq(r, q)
  \/ \E r \in ReqIds : InvalidateStep(r)
  \/ \E r \in ReqIds : AfterInvalidate(r)
  \/ Steps
  \/ Tick

SpecSeq == Init /\ [][NextSeq]_vars

(* One request at a time, reads and writes of one resource by two callers, *)
(* with a cacheable POST, a raising getInvalidationPatterns, a pattern      *)
(* callback and a Redis that is down.                                       *)

WriteRequests ==
  { [method |-> m, url |-> <<"/", "a">>, body |-> BodyUndef, user |-> u, routeTtl |-> -1,
     params |-> NoParams] :
      m \in {"GET", "POST"}, u \in {<<"A">>, <<"B">>} }

WriteOptionSets ==
  { defaultConfig,
    [defaultConfig EXCEPT !.cachePost = TRUE],
    [defaultConfig EXCEPT !.patternsRaise = TRUE],
    [defaultConfig EXCEPT !.extraPatterns = << <<"*">> >>],
    [defaultConfig EXCEPT !.useRedis = TRUE, !.redisUp = FALSE] }

StartWrite(r, q) == r <= MaxReqs /\ Quiescent /\ Begin(r, q)

InitWrite == InitWith(WriteOptionSets) /\ AuxIdle

NextWrite ==
  \/ \E r \in ReqIds, q \in WriteRequests : StartWrite(r, q)
  \/ \E r \in ReqIds : InvalidateStep(r)
  \/ \E r \in ReqIds : AfterInvalidate(r)
  \/ Steps
  \/ Tick

SpecWrite == InitWrite /\ [][NextWrite]_vars

(* One GET of one resource at a time while the clock advances, for every    *)
(* combination of ttl 0 or 1, stale-while-revalidate and the slow tier.     *)

TtlOptionSets ==
  { [defaultConfig EXCEPT !.ttl = t, !.staleWhileRevalidate = swr, !.useRedis = ur] :
      t \in {0, 1}, swr \in BOOLEAN, ur \in BOOLEAN }

StartTtl(r) == r <= MaxReqs /\ Quiescent /\ Begin(r, GetRequest)

InitTtl == InitWith(TtlOptionSets) /\ AuxIdle

NextTtl ==
  \/ \E r \in ReqIds : StartTtl(r)
  \/ Steps
  \/ Tick

SpecTtl == InitTtl /\ [][NextTtl]_vars

(* The same, with handlers that may answer with an error status.            *)

\* The leader's handler answers with res.status(500).json(payload).
HandlerJsonError(r) ==
  /\ reqs[r].handler = "running"
  /\ reqs[r].patched
  /\ CaptureAndSend(r, ErrPayload)
  /\ UNCHANGED <<options, now, hits, misses, pendingRequests, data, auxvars>>

NextErr ==
  \/ \E r \in ReqIds : StartTtl(r)
  \/ \E r \in ReqIds : HandlerJsonError(r)
  \/ Steps
  \/ Tick

SpecErr == InitTtl /\ [][NextErr]_vars

(* One GET of one resource at a time while the clock advances, where        *)
(* getPerRouteTtl returns nothing, 0 or 2 for a request.                    *)

RouteRequests == { [GetRequest EXCEPT !.routeTtl = t] : t \in {-1, 0, 2} }

RouteOptionSets ==
  { [defaultConfig EXCEPT !.staleWhileRevalidate = swr] : swr \in BOOLEAN }
    \cup { [defaultConfig EXCEPT !.useRedis = TRUE, !.staleWhileRevalidate = swr] :
             swr \in BOOLEAN }

StartRoute(r, q) == r <= MaxReqs /\ Quiescent /\ Begin(r, q)

InitRoute == InitWith(RouteOptionSets) /\ AuxIdle

NextRoute ==
  \/ \E r \in ReqIds, q \in RouteRequests : StartRoute(r, q)
  \/ Steps
  \/ Tick

SpecRoute == InitRoute /\ [][NextRoute]_vars

(* One script of requests executed twice, one request at a time: first by  *)
(* a middleware with the fast tier alone, then by a middleware with both    *)
(* tiers whose Redis is down.  A script item is a request, the clock step   *)
(* at which it is issued and what the handler does when it is invoked on    *)
(* behalf of the request ("small", "big": res.json of that size; "end":     *)
(* res.end; "raise").                                                       *)

ScriptItems ==
  { [req |-> q, t |-> t, out |-> o] :
      q \in CanonicalRequests, t \in 0..MaxTicks, o \in {"small", "big", "end", "raise"} }

Scripts ==
  { sc \in [1..MaxReqs -> ScriptItems] :
      /\ sc[1].t = 0
      /\ \A i \in 1..(MaxReqs - 1) : sc[i].t <= sc[i + 1].t
      /\ \A i \in 1..MaxReqs : sc[i].req.method = "POST" => sc[i].out = "small" }

\* The options of the first execution: the fast tier alone.
FastOnly == {defaultConfig, [defaultConfig EXCEPT !.ttl = 0]}

\* The same options with the slow tier added and Redis unreachable.
SlowDown(opts) == [opts EXCEPT !.useRedis = TRUE, !.redisUp = FALSE]

OutSize(o) == IF o = "big" THEN SmallLimit + 1 ELSE SmallLimit

\* The script item to issue next (0: none left).
NextItem ==
  IF \E r \in 1..MaxReqs : reqs[r].pc = "idle"
  THEN CHOOSE r \in 1..MaxReqs :
         reqs[r].pc = "idle" /\ \A o \in 1..(r - 1) : reqs[o].pc # "idle"
  ELSE 0

\* The handler invoked by the leader p has returned without res.json or
\* res.send: the promise of line 220 stays pending, and no call awaiting it
\* ever returns.
NeverSettles(p) ==
  promises[p].st = "pending" /\ promises[p].kind = "fetch" /\ reqs[p].handler = "done"

Hung(r) == reqs[r].pc = "await" /\ NeverSettles(reqs[r].promise)

\* Nothing is left to run: every call has returned or hangs for good.
TwinQuiet ==
  \A r \in ReqIds :
    /\ reqs[r].pc \in {"idle", "done", "rejected"} \/ Hung(r)
    /\ reqs[r].handler \in {"none", "done"}
    /\ promises[r].st \in {"none", "settledOk", "settledErr"} \/ NeverSettles(r)
    /\ reqs[r].errs > 0 => reqs[r].body # NoPayload

TwinStart(r) ==
  /\ r = NextItem
  /\ TwinQuiet
  /\ now = twin.script[r].t * TickMs
  /\ Begin(r, twin.script[r].req)

TwinTick ==
  /\ NextItem # 0
  /\ TwinQuiet
  /\ now < twin.script[NextItem].t * TickMs
  /\ Tick

TwinFetch(r) == r <= MaxReqs /\ ResumeFetch(r, twin.script[r].out = "raise")

TwinJson(r) ==
  /\ r <= MaxReqs
  /\ twin.script[r].out \in {"small", "big"}
  /\ HandlerJson(r, OutSize(twin.script[r].out))

TwinEnd(r) == r <= MaxReqs /\ twin.script[r].out = "end" /\ HandlerEnd(r)

TwinRefresh(r) == r <= MaxReqs /\ RefreshInvoke(r, twin.script[r].out = "raise")

TwinRefreshJson(r) ==
  /\ r <= MaxReqs
  /\ twin.script[r].out \in {"small", "big"}
  /\ RefreshJson(r, OutSize(twin.script[r].out))

TwinRefreshEnd(r) == r <= MaxReqs /\ twin.script[r].out = "end" /\ RefreshEnd(r)

\* The script has been executed to its end.
RunOver == NextItem = 0 /\ TwinQuiet

\* The first execution is over: what it did is recorded, and the script
\* starts again on a newly constructed middleware whose Redis is down.
Rerun ==
  /\ RunOver
  /\ twin.first = <<>>
  /\ twin' = [twin EXCEPT !.first = Observed]
  /\ options' = SlowDown(options)
  /\ now' = 0
  /\ memory' = EmptyStore
  /\ redis' = EmptyStore
  /\ hits' = 0
  /\ misses' = 0
  /\ pendingRequests' = [k \in {} |-> 0]
  /\ promises' = [p \in ReqIds |-> NoPromise]
  /\ reqs' = [r \in ReqIds |-> InitReq]
  /\ data' = 0
  /\ UNCHANGED <<inv, reqA, reqB, keyA, keyB, cleared>>

InitTwin ==
  /\ InitWith(FastOnly)
  /\ inv = NoPass
  /\ reqA = NoReq /\ reqB = NoReq /\ keyA = <<>> /\ keyB = <<>>
  /\ twin \in {[script |-> sc, first |-> <<>>] : sc \in Scripts}
  /\ cleared = NoClear

NextTwin ==
  \/ \E r \in ReqIds : TwinStart(r)
  \/ TwinTick
  \/ \E r \in ReqIds : InvalidateStep(r)
  \/ \E r \in ReqIds : AfterInvalidate(r)
  \/ \E r \in ReqIds : Read(r)
  \/ \E r \in ReqIds : ResumeHit(r)
  \/ \E r \in ReqIds : TwinFetch(r)
  \/ \E r \in ReqIds : TwinJson(r)
  \/ \E r \in ReqIds : TwinEnd(r)
  \/ \E p \in ReqIds : Settle(p)
  \/ \E p \in ReqIds : CatchDelete(p)
  \/ \E p \in ReqIds : FinallyDelete(p)
  \/ \E r \in ReqIds : AwaitDone(r)
  \/ \E r \in ReqIds : ErrorEmit(r)
  \/ \E r \in ReqIds : TwinRefresh(r)
  \/ \E r \in ReqIds : TwinRefreshJson(r)
  \/ \E r \in ReqIds : TwinRefreshEnd(r)
  \/ Rerun

SpecTwin == InitTwin /\ [][NextTwin]_vars

(* One GET of one resource at a time, the handler answering with payloads  *)
(* that can or cannot be serialized, with and without the slow tier.        *)

PayloadOptionSets ==
  { [defaultConfig EXCEPT !.useRedis = ur, !.ttl = t] : ur \in BOOLEAN, t \in {0, 1} }

StartPayload(r) == r <= MaxReqs /\ Quiescent /\ Begin(r, GetRequest)

InitPayload == InitWith(PayloadOptionSets) /\ AuxIdle

NextPayload ==
  \/ \E r \in ReqIds : StartPayload(r)
  \/ \E r \in ReqIds : HandlerJsonCyclic(r)
  \/ Steps
  \/ Tick

SpecPayload == InitPayload /\ [][NextPayload]_vars

(* Concurrent requests of which some meet a bypass condition: a method     *)
(* that is not cacheable (HEAD), an excluded path or a path the skip        *)
(* predicate accepts (/b), a caller identity with disableAuthCaching.       *)

BypassRequests ==
  { [GetRequest EXCEPT !.user = <<"A">>],
    [GetRequest EXCEPT !.url = <<"/", "b">>],
    [GetRequest EXCEPT !.method = "HEAD"],
    [GetRequest EXCEPT !.method = "POST", !.user = <<"A">>],
    GetRequest }

BypassOptionSets ==
  { [defaultConfig EXCEPT !.ttl = 0, !.disableAuthCaching = TRUE],
    [defaultConfig EXCEPT !.ttl = 0, !.disableAuthCaching = TRUE, !.cachePost = TRUE,
                          !.useRedis = TRUE],
    [defaultConfig EXCEPT !.ttl = 0, !.excludePaths = {<<"/", "b">>}],
    [defaultConfig EXCEPT !.ttl = 0, !.skipCache = {<<"/", "b">>}] }

StartBypass(r, q) == r <= MaxReqs /\ Begin(r, q)

InitBypass == InitWith(BypassOptionSets) /\ AuxIdle

NextBypass ==
  \/ \E r \in ReqIds, q \in BypassRequests : StartBypass(r, q)
  \/ \E r \in ReqIds : InvalidateStep(r)
  \/ \E r \in ReqIds : AfterInvalidate(r)
  \/ Steps

SpecBypass == InitBypass /\ [][NextBypass]_vars

(* Overlapping requests of one resource with every write method, with and   *)
(* without a cacheable POST.                                                *)

MutRequests ==
  { [GetRequest EXCEPT !.method = m] : m \in {"GET", "POST", "PUT", "PATCH", "DELETE"} }

MutOptionSets ==
  { defaultConfig,
    [defaultConfig EXCEPT !.cachePost = TRUE, !.useRedis = TRUE] }

StartMut(r, q) == r <= MaxReqs /\ Begin(r, q)

InitMut == InitWith(MutOptionSets) /\ AuxIdle

\* Time passes between bursts of requests.
IdleTick == Quiescent /\ Tick

NextMut ==
  \/ \E r \in ReqIds, q \in MutRequests : StartMut(r, q)
  \/ \E r \in ReqIds : InvalidateStep(r)
  \/ \E r \in ReqIds : AfterInvalidate(r)
  \/ Steps
  \/ IdleTick

SpecMut == InitMut /\ [][NextMut]_vars

(* clearCache between requests made one at a time: GETs of two resources   *)
(* by two callers fill the tiers, the clock advances, and clearCache is     *)
(* called with the default pattern, the empty string, a prefix pattern, a  *)
(* suffix pattern and a whole key.                                          *)

MaxClears == 1      \* clearCache calls in one behaviour of SpecClear
MaxClearReqs == 2   \* middleware calls in one behaviour of SpecClear

ClearRequests ==
  { GetRequest,
    [GetRequest EXCEPT !.user = <<"A">>],
    [GetRequest EXCEPT !.url = <<"/", "b">>] }

ClearPatterns ==
  { <<"*">>,
    <<>>,
    <<"GET", ":", "/", "a", ":", "*">>,
    <<"*", ":", "A">>,
    buildCacheKey(GetRequest) }

ClearOptionSets ==
  { defaultConfig,
    [defaultConfig EXCEPT !.useRedis = TRUE],
    [defaultConfig EXCEPT !.useMemory = FALSE, !.useRedis = TRUE] }

\* clearCache(pattern) -> invalidateByPattern(pattern): in every store, keys(pattern)
\* and a del of each key found.
clearCache(pattern) ==
  /\ cleared.n < MaxClears
  /\ Quiescent
  /\ memory' = IF options.useMemory THEN DelKeys(memory, MemoryKeys(pattern)) ELSE memory
  /\ redis' = IF options.useRedis THEN RedisDel(RedisKeys(pattern)) ELSE redis
  /\ cleared' = [n |-> cleared.n + 1, pattern |-> pattern, memory |-> memory,
                 redis |-> redis, hits |-> hits, misses |-> misses,
                 pendingRequests |-> pendingRequests]
  /\ UNCHANGED <<options, now, hits, misses, pendingRequests, promises, reqs, data,
                 inv, reqA, reqB, keyA, keyB, twin>>

StartClear(r, q) == r <= MaxClearReqs /\ Quiescent /\ Begin(r, q)

InitClear == InitWith(ClearOptionSets) /\ AuxIdle

NextClear ==
  \/ \E r \in ReqIds, q \in ClearRequests : StartClear(r, q)
  \/ \E p \in ClearPatterns : clearCache(p)
  \/ Steps
  \/ Tick

SpecClear == InitClear /\ [][NextClear]_vars

(* Two GETs of one resource, with the event loop's guarantees: a           *)
(* continuation that can run does run.  Nothing obliges a handler to answer. *)

MaxLive == 2

LiveOptionSets ==
  { [defaultConfig EXCEPT !.ttl = 0],
    [defaultConfig EXCEPT !.useRedis = TRUE] }

StartLive(r) == r <= MaxLive /\ Begin(r, GetRequest)

InitLive == InitWith(LiveOptionSets) /\ AuxIdle

NextLive ==
  \/ \E r \in ReqIds : StartLive(r)
  \/ Steps
  \/ Tick

EventLoop ==
  \A r \in ReqIds :
    /\ WF_vars(Read(r))
    /\ WF_vars(ResumeHit(r))
    /\ WF_vars(\E raises \in BOOLEAN : ResumeFetch(r, raises))
    /\ WF_vars(Settle(r))
    /\ WF_vars(CatchDelete(r))
    /\ WF_vars(FinallyDelete(r))
    /\ WF_vars(AwaitDone(r))
    /\ WF_vars(\E raises \in BOOLEAN : RefreshInvoke(r, raises))

FairLive == InitLive /\ [][NextLive]_vars /\ EventLoop /\ WF_vars(Tick)

(* Two GETs of one resource by a process that has just started, while the   *)
(* Redis server may hold an entry an earlier process wrote.                  *)

WarmOptionSets ==
  { defaultConfig,
    [defaultConfig EXCEPT !.useRedis = TRUE],
    [defaultConfig EXCEPT !.useRedis = TRUE, !.useMemory = FALSE],
    [defaultConfig EXCEPT !.useRedis = TRUE, !.staleWhileRevalidate = FALSE] }

WarmStore ==
  [k \in {buildCacheKey(GetRequest)} |->
     [present |-> TRUE, value |-> OkPayload(0, SmallLimit), createdAt |-> 0, ttl |-> 1,
      exp |-> 1000]]

InitWarm ==
  /\ options \in WarmOptionSets
  /\ now = 0
  /\ memory = EmptyStore
  /\ redis \in IF options.useRedis THEN {EmptyStore, WarmStore} ELSE {EmptyStore}
  /\ hits = 0
  /\ misses = 0
  /\ pendingRequests = [k \in {} |-> 0]
  /\ promises = [p \in ReqIds |-> NoPromise]
  /\ reqs = [r \in ReqIds |-> InitReq]
  /\ data = 0
  /\ AuxIdle

NextWarm ==
  \/ \E r \in ReqIds : StartLive(r)
  \/ Steps
  \/ Tick

SpecWarm == InitWarm /\ [][NextWarm]_vars

(* The invalidation engine over stores that hold entries of three callers. *)

UserA == <<"A">>
UserB == <<"B">>

\* The cached GETs: no identity, A, B, and an identity that holds the separator.
InvCached ==
  { [GetRequest EXCEPT !.user = u] : u \in {<<>>, UserA, UserB, <<"B", ":", "A">>} }

\* The writes: POST /a by nobody, A or B, on a route with or without :userId.
InvWrites ==
  { [GetRequest EXCEPT !.method = "POST", !.user = u, !.params = [NoParams EXCEPT !.userId = pu]] :
      u \in {<<>>, UserA, UserB}, pu \in {<<>>, UserB} }

InvPatterns ==
  { <<"GET", ":", "/", "a", ":", "*", ":", "*", ":", "{userId}">>,
    <<"GET", ":", "{path}", "*">>,
    <<"GET", ":", "/", "a", ":", "*", ":", "*", ":", "*">> }

InvRule(pattern, scope) ==
  [methods |-> {"POST"}, pathPattern |-> <<"/", "*">>, invalidatePatterns |-> <<pattern>>,
   invalidateMethods |-> {Undefined}, respectUserScope |-> scope]

InvOptionSets ==
  { [defaultConfig EXCEPT !.useRedis = TRUE, !.invalidationRules = <<InvRule(p, sc)>>] :
      p \in InvPatterns, sc \in {"true", "false", Undefined} }
  \cup
  { [defaultConfig EXCEPT !.invalidationRules =
        << InvRule(<<"GET", ":", "/", "a", ":", "*", ":", "*", ":", "{userId}">>, "false"),
           InvRule(<<"GET", ":", "/", "a", ":", "*", ":", "*", ":", "*">>, "true") >>] }

InitInv ==
  /\ InitWith(InvOptionSets)
  /\ AuxIdle

NextInv ==
  \/ \E q \in InvCached : StoreResponse(q)
  \/ \E q \in InvWrites : invalidate(q)
  \/ processRule

SpecInv == InitInv /\ [][NextInv]_vars

(* The engine with auto-generated REST rules: GET responses of collections, *)
(* items and nested collections are stored for two callers, then one write  *)
(* is processed.                                                            *)

RestPaths ==
  { <<"/", "users">>,
    <<"/", "users", "/", "1">>,
    <<"/", "users", "/", "1", "/", "posts">>,
    <<"/", "api", "/", "users">> }

RestCached == { [GetRequest EXCEPT !.url = u, !.user = w] : u \in RestPaths, w \in {<<>>, UserA} }

RestWrites ==
  { [GetRequest EXCEPT !.method = m, !.url = u, !.user = w] :
      m \in {"POST", "PUT", "PATCH", "DELETE"}, u \in RestPaths, w \in {<<>>, UserA} }

RestOptionSets ==
  { [defaultConfig EXCEPT !.autoGenerateRestRules = TRUE],
    [defaultConfig EXCEPT !.autoGenerateRestRules = TRUE, !.useRedis = TRUE] }

StoreRest(q) == inv.req = NoReq /\ StoreResponse(q)

WriteRest(q) == inv.req = NoReq /\ invalidate(q)

InitRest == InitWith(RestOptionSets) /\ AuxIdle

NextRest ==
  \/ \E q \in RestCached : StoreRest(q)
  \/ \E q \in RestWrites : WriteRest(q)
  \/ processRule

SpecRest == InitRest /\ [][NextRest]_vars

(* The engine with rules that name the methods to invalidate: GET and POST *)
(* responses of one resource are stored for two callers, then one write is *)
(* processed.                                                               *)

PatAny == <<"*", ":", "/", "a", ":", "*", ":", "*", ":", "*">>
PatGet == <<"GET", ":", "/", "a", ":", "*", ":", "*", ":", "*">>

MethodRule(patterns, methods, scope) ==
  [methods |-> {"POST"}, pathPattern |-> <<"/", "*">>, invalidatePatterns |-> patterns,
   invalidateMethods |-> methods, respectUserScope |-> scope]

RulesCached ==
  { [GetRequest EXCEPT !.method = m, !.user = u] : m \in {"GET", "POST"}, u \in {<<>>, UserA} }

RulesWrites == { [GetRequest EXCEPT !.method = "POST", !.user = u] : u \in {<<>>, UserA} }

RulesOptionSets ==
  { [defaultConfig EXCEPT !.invalidationRules = <<MethodRule(<<p>>, ms, sc)>>] :
      p \in {PatAny, PatGet}, ms \in {{Undefined}, {"POST"}, {"GET", "POST"}},
      sc \in {"true", "false"} }
  \cup
  { [defaultConfig EXCEPT !.invalidationRules =
        << MethodRule(<<PatAny>>, {Undefined}, "false"),
           MethodRule(<<PatAny>>, {"POST"}, "false") >>],
    [defaultConfig EXCEPT !.useRedis = TRUE, !.invalidationRules =
        << MethodRule(<<PatGet>>, {Undefined}, "false"),
           MethodRule(<<PatAny>>, {"POST"}, "false") >>],
    [defaultConfig EXCEPT !.invalidationRules =
        << MethodRule(<<PatGet, PatGet, PatAny, PatGet>>, {"GET", "POST"}, "false") >>],
    [defaultConfig EXCEPT !.maxInvalidationDepth = 0, !.invalidationRules =
        << MethodRule(<<PatAny>>, {"GET", "POST"}, "false") >>] }

InitRules == InitWith(RulesOptionSets) /\ AuxIdle

NextRules ==
  \/ \E q \in RulesCached : StoreRest(q)
  \/ \E q \in RulesWrites : WriteRest(q)
  \/ processRule

SpecRules == InitRules /\ [][NextRules]_vars

\* Every awaited step of a pass that can run does run.
FairRules == SpecRules /\ WF_vars(processRule)

(* buildCacheKey on pairs of requests.                                     *)

KeyUrls ==
  { <<"/", "a">>,
    <<"/", "a", "?", "q", "=", "1">>,
    <<"/", "a", "?", "q", "=", "1", ":">>,
    <<"/", "a", "?", "x", "=", "1", "&", "y", "=", "2">>,
    <<"/", "a", "?", "y", "=", "2", "&", "x", "=", "1">>,
    <<"/", "a", "?", "q", "=", "1", "&", "q", "=", "2">>,
    <<"/", "a", "?", "q", "=", "2", "&", "q", "=", "1">> }

KeyBodies ==
  { BodyUndef,
    BodyObj(<< <<<<"x">>, BodyStr(<<"1">>)>>, <<<<"y">>, BodyStr(<<"2">>)>> >>),
    BodyObj(<< <<<<"y">>, BodyStr(<<"2">>)>>, <<<<"x">>, BodyStr(<<"1">>)>> >>) }

KeyUsers == { <<>>, <<"anon">>, <<"u">>, <<":", "u">> }

KeyRequests ==
  { [method |-> m, url |-> u, body |-> b, user |-> w, routeTtl |-> -1, params |-> NoParams] :
      m \in {"GET", "POST"}, u \in KeyUrls, b \in KeyBodies, w \in KeyUsers }

InitKey ==
  /\ InitWith({defaultConfig})
  /\ inv = NoPass
  /\ reqA \in KeyRequests
  /\ reqB \in KeyRequests
  /\ keyA = <<>>
  /\ keyB = <<>>
  /\ twin = NoTwin
  /\ cleared = NoClear

BuildKeys ==
  /\ keyA = <<>>
  /\ keyA' = buildCacheKey(reqA)
  /\ keyB' = buildCacheKey(reqB)
  /\ UNCHANGED <<options, now, memory, redis, hits, misses, pendingRequests, promises, reqs,
                 data, inv, reqA, reqB, twin, cleared>>

NextKey == BuildKeys

SpecKey == InitKey /\ [][NextKey]_vars

(* buildCacheKey on pairs of POST requests whose bodies are nested objects  *)
(* and arrays: the same content with the keys in another order at depth 1,  *)
(* 2 or 3 or inside an array element, with array elements in another order, *)
(* and with other content.                                                  *)

Str1 == BodyStr(<<"1">>)
Str2 == BodyStr(<<"2">>)
Str3 == BodyStr(<<"3">>)
ObjAB == BodyObj(<< <<<<"a">>, Str1>>, <<<<"b">>, Str2>> >>)
ObjBA == BodyObj(<< <<<<"b">>, Str2>>, <<<<"a">>, Str1>> >>)

DigestBodies ==
  { BodyObj(<< <<<<"x">>, Str1>>, <<<<"y">>, ObjAB>> >>),
    BodyObj(<< <<<<"y">>, ObjBA>>, <<<<"x">>, Str1>> >>),
    BodyObj(<< <<<<"x">>, Str1>>, <<<<"y">>, ObjBA>> >>),
    BodyObj(<< <<<<"x">>, Str1>>, <<<<"y">>, BodyObj(<< <<<<"a">>, Str1>>, <<<<"b">>, Str3>> >>)>> >>),
    BodyObj(<< <<<<"x">>, BodyArr(<<Str1, Str2>>)>> >>),
    BodyObj(<< <<<<"x">>, BodyArr(<<Str2, Str1>>)>> >>),
    BodyObj(<< <<<<"x">>, BodyArr(<<ObjAB, Str3>>)>> >>),
    BodyObj(<< <<<<"x">>, BodyArr(<<ObjBA, Str3>>)>> >>),
    BodyObj(<< <<<<"x">>, BodyArr(<<Str3, ObjAB>>)>> >>),
    BodyObj(<< <<<<"x">>, BodyObj(<< <<<<"y">>, ObjAB>> >>)>> >>),
    BodyObj(<< <<<<"x">>, BodyObj(<< <<<<"y">>, ObjBA>> >>)>> >>),
    BodyArr(<<Str1, Str2>>),
    BodyArr(<<Str2, Str1>>) }

DigestRequests == { [GetRequest EXCEPT !.method = "POST", !.body = b] : b \in DigestBodies }

InitDigest ==
  /\ InitWith({defaultConfig})
  /\ inv = NoPass
  /\ reqA \in DigestRequests
  /\ reqB \in DigestRequests
  /\ keyA = <<>>
  /\ keyB = <<>>
  /\ twin = NoTwin
  /\ cleared = NoClear

NextDigest == BuildKeys

SpecDigest == InitDigest /\ [][NextDigest]_vars

-----------------------------------------------------------------------------
(* Properties.                                                             *)

NoHandlerRaised ==
  \A p \in ReqIds : promises[p].st \notin {"rejected", "caught", "settledErr"}

\* The calls that share key k and began before anything was stored or captured for it.
EarlyCalls(k) == {r \in ReqIds : reqs[r].key = k /\ reqs[r].early}

KeysInUse == {reqs[r].key : r \in {o \in ReqIds : reqs[o].key # <<>>}}

\* C1: among the requests of one key that entered while nothing was stored
\* and nothing had been captured for it, at most one invokes the downstream
\* handler (stated for the runs in which no handler raises and the slow tier
\* is configured, so that the store read is a real I/O suspension).
C1_OneInvocation ==
  (NoHandlerRaised /\ options.useRedis) =>
    \A k \in KeysInUse : Cardinality({r \in EarlyCalls(k) : reqs[r].nexts > 0}) <= 1

\* C2: every finished request that awaited a fetch promise which resolved has
\* the resolved payload as the body sent on its own response.
C2_AllReceivePayload ==
  \A r \in ReqIds :
    (/\ reqs[r].pc = "done"
     /\ reqs[r].promise # 0
     /\ promises[reqs[r].promise].kind = "fetch"
     /\ promises[reqs[r].promise].st = "settledOk")
    => reqs[r].body = promises[reqs[r].promise].val


\* The age in whole seconds that line 193 computed for entry e in call r.
AgeAt(r, e) == (reqs[r].at - e.createdAt) \div 1000

RefreshesPending(k) ==
  {p \in ReqIds : promises[p].kind = "refresh" /\ promises[p].key = k
                  /\ promises[p].st = "pending"}

C5_StaleServed ==
  options.staleWhileRevalidate =>
    \A r \in ReqIds :
         (/\ reqs[r].pc = "done"
          /\ reqs[r].cached.present
          /\ AgeAt(r, reqs[r].cached) >= Ttl(reqs[r].req))
         => (reqs[r].body = reqs[r].cached.value /\ reqs[r].xcache)

StoredEntries ==
  {memory[k] : k \in DOMAIN memory} \cup {redis[k] : k \in DOMAIN redis}

\* C8: no tier holds an entry whose payload is larger than maxPayloadSize.
C8_NoOversizedEntry ==
  \A e \in StoredEntries : getPayloadSize(e.value) <= options.maxPayloadSize

\* C7: once a leader's fetch has failed because the handler raised, every
\* finished request that awaited it has passed the error downstream once, the
\* key is not registered to the failed promise, and no tier holds an entry
\* captured on the failed leader's response object.
C7_FailedFetch ==
  \A p \in ReqIds :
    (promises[p].kind = "fetch" /\ promises[p].st = "settledErr") =>
      /\ \A r \in ReqIds :
           (reqs[r].pc = "done" /\ reqs[r].promise = p) => reqs[r].errs = 1
      /\ ~(promises[p].key \in DOMAIN pendingRequests
           /\ pendingRequests[promises[p].key] = p)
      /\ \A e \in {memory[k] : k \in DOMAIN memory \cap {promises[p].key}}
                \cup {redis[k] : k \in DOMAIN redis \cap {promises[p].key}} :
           ~(reqs[p].captured /\ e.value = reqs[p].body)


\* C6: a background refresh that has been registered is eventually no longer
\* registered, whether or not its handler ever answers.
C6_RefreshEventuallyCleared ==
  \A p \in ReqIds :
    (promises[p].kind = "refresh" /\ promises[p].st = "pending")
      ~> ~(promises[p].key \in DOMAIN pendingRequests
           /\ pendingRequests[promises[p].key] = p)

\* C3: with invalidateOnWrite, a GET that begins right after a write to the
\* same path by the same caller was processed does not find a stored entry:
\* it invokes the handler and is not answered from the cache.
C3_WriteThenMiss ==
  \A g \in ReqIds \ {1} :
    (/\ options.invalidateOnWrite
     /\ reqs[g].at # -1
     /\ reqs[g].req.method = "GET"
     /\ reqs[g - 1].req.method \in WriteMethods
     /\ normalizeUrl(reqs[g - 1].req.url) = normalizeUrl(reqs[g].req.url)
     /\ reqs[g - 1].req.user = reqs[g].req.user)
    => (~reqs[g].cached.present /\ ~reqs[g].xcache /\ reqs[g].nexts = 1)

\* The same for writes whose url has no dot segment.
C3_CanonicalOnly ==
  \A g \in ReqIds \ {1} :
    (/\ options.invalidateOnWrite
     /\ reqs[g].at # -1
     /\ reqs[g].req.method = "GET"
     /\ reqs[g - 1].req.method \in WriteMethods
     /\ reqs[g - 1].req.url = <<"/", "a">>
     /\ normalizeUrl(reqs[g - 1].req.url) = normalizeUrl(reqs[g].req.url)
     /\ reqs[g - 1].req.user = reqs[g].req.user)
    => (~reqs[g].cached.present /\ ~reqs[g].xcache /\ reqs[g].nexts = 1)

\* C4: a request to which read-through returned a stored entry, and for which
\* the age computed at that moment is below its TTL, is answered with the
\* entry's payload, marked as a hit, and no downstream handler is invoked for it.
C4_FreshHitServed ==
  \A r \in ReqIds :
    (/\ reqs[r].at # -1
     /\ reqs[r].cached.present
     /\ AgeAt(r, reqs[r].cached) < Ttl(reqs[r].req))
    => /\ reqs[r].pc = "done"
       /\ reqs[r].body = reqs[r].cached.value
       /\ reqs[r].xcache
       /\ reqs[r].nexts = 0
       /\ reqs[r].handler = "none"

\* A hit on an entry stored half a second earlier, in a run with a write.
C4_Witness ==
  \E r \in ReqIds :
    /\ reqs[r].pc = "done"
    /\ reqs[r].cached.present
    /\ reqs[r].at > reqs[r].cached.createdAt
    /\ AgeAt(r, reqs[r].cached) < Ttl(reqs[r].req)
    /\ reqs[r].xcache


\* C9: while a rule with respectUserScope = true is processed for a write by
\* a caller whose identity is present, every key deleted from any store is a
\* five-part key whose identity part is that caller's.
C9_ScopedRuleKeepsOthers ==
  \A i \in DOMAIN inv.log :
    (inv.log[i].rule.respectUserScope = "true" /\ inv.log[i].user # <<>>) =>
      \A k \in inv.log[i].deleted :
        /\ Len(Split(k, ":")) = 5
        /\ Split(k, ":")[5] = inv.log[i].user

\* A scoped rule processed for caller A deleted A's entry while the entry of
\* B, which the swept pattern matches, is still stored.
C9_Witness ==
  \E i \in DOMAIN inv.log :
    /\ inv.log[i].rule.respectUserScope = "true"
    /\ inv.log[i].user = UserA
    /\ inv.log[i].deleted # {}
    /\ \E k \in DOMAIN memory, pat \in {inv.log[i].patterns[j] : j \in DOMAIN inv.log[i].patterns} :
         /\ keyMatchesPattern(k, pat)
         /\ Split(k, ":")[5] = UserB

\* The fields the key is derived from.
QuerySet(req) == {searchParams(req.url)[i] : i \in DOMAIN searchParams(req.url)}

\* A body's content: an object's entries as a set, whatever their order.
BodyContent(body) == [t |-> body.t, s |-> body.s, kv |-> {body.kv[i] : i \in DOMAIN body.kv}]

FieldsDiffer(a, b) ==
  \/ a.method # b.method
  \/ normalizeUrl(a.url) # normalizeUrl(b.url)
  \/ QuerySet(a) # QuerySet(b)
  \/ (a.method # "GET" /\ BodyContent(a.body) # BodyContent(b.body))
  \/ a.user # b.user

\* C10: two requests that differ in method, normalized path, query-parameter
\* set, body of a non-GET request or caller identity have different keys.
C10_DistinctFieldsDistinctKeys ==
  (keyA # <<>> /\ FieldsDiffer(reqA, reqB)) => keyA # keyB


FieldsAgree(a, b) ==
  /\ a.method = b.method
  /\ normalizeUrl(a.url) = normalizeUrl(b.url)
  /\ QuerySet(a) = QuerySet(b)
  /\ BodyContent(a.body) = BodyContent(b.body)
  /\ a.user = b.user

\* C11: two requests that agree on method, path, the set of query parameters,
\* body content up to object key order and caller identity have the same key.
C11_SameFieldsSameKey ==
  (keyA # <<>> /\ FieldsAgree(reqA, reqB)) => keyA = keyB

\* No parameter name occurs twice in the url.
NamesOnce(req) ==
  \A i, j \in DOMAIN searchParams(req.url) :
    searchParams(req.url)[i][1] = searchParams(req.url)[j][1] => i = j

\* The same for requests in which no query parameter name is repeated.
C11_NamesOnce ==
  (keyA # <<>> /\ FieldsAgree(reqA, reqB) /\ NamesOnce(reqA) /\ NamesOnce(reqB))
    => keyA = keyB

\* Whether the invalidation of the write request of call r fails: the
\* pattern callback raises, or the store operations fail (Redis down).
InvalidationFails(r) ==
  /\ reqs[r].req.method \in WriteMethods
  /\ options.invalidateOnWrite
  /\ options.patternsRaise \/ (options.useRedis /\ ~options.redisUp)

\* C12: when the invalidation triggered by a write request raises, no error
\* reaches the caller: the middleware call completes normally and has passed
\* the request downstream exactly once.
C12_WriteSurvivesFailure ==
  \A r \in ReqIds :
    (InvalidationFails(r) /\ reqs[r].pc \notin {"idle", "invalidate", "invalidated"})
      => (reqs[r].pc = "done" /\ reqs[r].nexts = 1)

\* The part of C12 that holds: failing store operations are swallowed.
C12_StoreFailureContained ==
  \A r \in ReqIds :
    (InvalidationFails(r) /\ ~options.patternsRaise
       /\ reqs[r].pc \notin {"idle", "invalidate", "invalidated"})
      => (reqs[r].pc = "done" /\ reqs[r].nexts = 1)

\* Call r2 repeats the cacheable POST of call r1, which stored its payload,
\* within the TTL: same path, body and caller, no call in between.
RepeatedPost(r1, r2) ==
  /\ r2 = r1 + 1
  /\ options.cachePost
  /\ reqs[r1].req.method = "POST"
  /\ reqs[r2].req = reqs[r1].req
  /\ reqs[r1].pc = "done" /\ reqs[r2].pc = "done"
  /\ reqs[r1].captured /\ reqs[r1].body.kind = "ok"
  /\ getPayloadSize(reqs[r1].body) <= options.maxPayloadSize
  /\ reqs[r2].body # NoPayload
  /\ reqs[r2].at - reqs[r1].at < Ttl(reqs[r1].req) * 1000

\* C13: with default options and a cachePostPredicate that accepts it, a POST
\* repeated within the TTL is answered from the cache: the handler is not
\* invoked for the second request, which receives the first payload.
C13_RepeatedPostFromCache ==
  \A r1, r2 \in ReqIds :
    RepeatedPost(r1, r2) => (reqs[r2].nexts = 0 /\ reqs[r2].body = reqs[r1].body)

\* Call r is a GET under the default settings with the fast tier alone, it
\* has been answered, and its handler, if invoked, did not raise.
AnsweredDefaultGet(r) ==
  /\ options.useMemory /\ ~options.useRedis /\ options.staleWhileRevalidate
  /\ options.ttl > 0 /\ reqs[r].req.routeTtl < 0
  /\ reqs[r].req.method = "GET"
  /\ reqs[r].pc = "done" /\ reqs[r].errs = 0
  /\ reqs[r].body # NoPayload

\* Call r was answered with a payload its own handler invocation computed.
AnsweredFresh(r) ==
  /\ ~reqs[r].xcache
  /\ reqs[r].nexts = 1
  /\ reqs[r].handler = "done"

\* C14: with default settings and only the fast tier, a GET issued more than
\* TTL seconds after the createdAt of the stored entry is answered with a
\* payload freshly computed by the handler for that request.
C14_PastTtlFresh ==
  \A r \in ReqIds :
    (AnsweredDefaultGet(r) /\ reqs[r].lapse = "past") => AnsweredFresh(r)

\* C14 as stated, the TTL having fully elapsed from age = TTL on.
C14_ElapsedTtlFresh ==
  \A r \in ReqIds :
    (AnsweredDefaultGet(r) /\ reqs[r].lapse \in {"at", "past"}) => AnsweredFresh(r)

C14_Witness ==
  \E r \in ReqIds :
    /\ AnsweredDefaultGet(r) /\ reqs[r].lapse = "past"
    /\ reqs[r].captured /\ reqs[r].body.kind = "ok"

\* Call r read a stored entry and has passed the expiry check of line 194.
Classified(r) == reqs[r].cached.present /\ reqs[r].at >= 0

\* Call r treated the entry it read as expired: it started a background
\* refresh or went on to fetch; a fresh hit does neither.
TreatedAsExpired(r) == reqs[r].handler # "none" \/ reqs[r].pc = "await"

\* C15: a stored entry is classified as expired exactly when its age in whole
\* seconds, floor((now - createdAt) / 1000), is >= the TTL; with TTL = 0 every
\* entry is expired on every read.
C15_ExpiredIffAgeReachesTtl ==
  \A r \in ReqIds :
    Classified(r) =>
      /\ TreatedAsExpired(r) <=> (AgeAt(r, reqs[r].cached) >= Ttl(reqs[r].req))
      /\ Ttl(reqs[r].req) = 0 => TreatedAsExpired(r)

\* One call read the entry at age equal to the TTL and treated it as expired,
\* another read it at a smaller age and served it as fresh.
C15_Witness ==
  \E r1, r2 \in ReqIds :
    /\ Classified(r1) /\ Ttl(reqs[r1].req) > 0
    /\ reqs[r1].at - reqs[r1].cached.createdAt = Ttl(reqs[r1].req) * 1000
    /\ TreatedAsExpired(r1)
    /\ Classified(r2) /\ reqs[r2].at - reqs[r2].cached.createdAt > 0
    /\ AgeAt(r2, reqs[r2].cached) < Ttl(reqs[r2].req)
    /\ ~TreatedAsExpired(r2) /\ reqs[r2].xcache

\* The stores the options configure, with what they hold whether or not it
\* has expired by now.
ConfiguredStores ==
  (IF options.useMemory THEN {memory} ELSE {})
    \cup (IF options.useRedis THEN {redis} ELSE {})

\* The background refresh of call r has emitted a payload and no later call
\* has begun.
RefreshEmitted(r) ==
  /\ reqs[r].wrote.present
  /\ r < MaxReqs => reqs[r + 1].pc = "idle"

\* C16: after the handler invocation of a background refresh has emitted a
\* payload, every configured tier holds that payload with the new createdAt,
\* and the next request for the key is answered with the refreshed payload.
C16_RefreshReachesEveryTier ==
  \A r \in ReqIds :
    /\ RefreshEmitted(r) =>
          \A store \in ConfiguredStores :
            /\ reqs[r].key \in DOMAIN store
            /\ store[reqs[r].key].value = reqs[r].wrote.value
            /\ store[reqs[r].key].createdAt = reqs[r].wrote.createdAt
    /\ (r < MaxReqs /\ reqs[r].wrote.present /\ reqs[r + 1].pc = "done"
          /\ reqs[r + 1].body # NoPayload)
         => reqs[r + 1].body = reqs[r].wrote.value

\* The part of C16 that holds: the fast tier holds the refreshed payload and
\* the next request is answered with it.
C16_RefreshReachesFastTier ==
  \A r \in ReqIds :
    /\ (RefreshEmitted(r) /\ options.useMemory) =>
          /\ reqs[r].key \in DOMAIN memory
          /\ memory[reqs[r].key].value = reqs[r].wrote.value
          /\ memory[reqs[r].key].createdAt = reqs[r].wrote.createdAt
    /\ (r < MaxReqs /\ reqs[r].wrote.present /\ reqs[r + 1].pc = "done"
          /\ reqs[r + 1].body # NoPayload)
         => reqs[r + 1].body = reqs[r].wrote.value

\* C17: with both tiers configured and every slow-tier operation failing, a
\* request sequence produces the same responses, the same downstream
\* invocations and the same fast-tier contents as the same sequence run with
\* the fast tier alone, and no slow-tier failure is surfaced to any caller.
C17_SlowDownLikeFastOnly ==
  (twin.first # <<>> /\ RunOver) => Observed = twin.first

C17_Witness ==
  /\ twin.first # <<>> /\ RunOver
  /\ \E r \in ReqIds : reqs[r].tier = 2 /\ reqs[r].captured
  /\ \E r \in ReqIds : reqs[r].xcache /\ reqs[r].wrote.present
  /\ \E r \in ReqIds : reqs[r].req.method = "POST"

\* The keys of the live entries of both tiers.
HeldKeys ==
  {k \in DOMAIN memory : MemoryGet(k).present}
    \cup {k \in DOMAIN redis : RedisGet(k).present}

\* Call r is a write that was not itself cacheable, it has been processed
\* with invalidateOnWrite enabled and no later call has begun.
WriteProcessed(r) ==
  /\ reqs[r].req.method \in WriteMethods
  /\ options.invalidateOnWrite /\ ~options.cachePost
  /\ reqs[r].pc = "done"
  /\ r < MaxReqs => reqs[r + 1].pc = "idle"

\* C18: after a write request to path P has been processed with
\* invalidateOnWrite enabled, no tier holds a GET or POST entry for path P,
\* whatever the entry's query string, body digest or caller identity.
C18_WriteClearsPath ==
  \A r \in ReqIds :
    WriteProcessed(r) =>
      \A k \in HeldKeys :
        ~(/\ Split(k, ":")[1] \in {<<"GET">>, <<"POST">>}
          /\ Split(k, ":")[2] = normalizeUrl(reqs[r].req.url))

\* The part of C18 that holds under SpecWrite: the writer's own entries for
\* the path are gone.
C18_WriteClearsOwnEntries ==
  \A r \in ReqIds :
    WriteProcessed(r) =>
      \A k \in HeldKeys :
        ~(/\ Split(k, ":")[1] \in {<<"GET">>, <<"POST">>}
          /\ Split(k, ":")[2] = normalizeUrl(reqs[r].req.url)
          /\ Split(k, ":")[5] = userIdOrAnon(reqs[r].req))

\* C19: a rule that leaves respectUserScope unset behaves like one with
\* respectUserScope = true: processed for a write by a caller whose identity
\* is present, it deletes no key whose identity part differs from the caller.
C19_UnsetScopeKeepsOthers ==
  \A i \in DOMAIN inv.log :
    (inv.log[i].rule.respectUserScope = Undefined /\ inv.log[i].user # <<>>) =>
      \A k \in inv.log[i].deleted :
        /\ Len(Split(k, ":")) = 5
        /\ Split(k, ":")[5] = inv.log[i].user

\* C20: a response payload that cannot be serialized is never written to any
\* tier; the request is still answered and no error is raised.
C20_UnserializableNotStored ==
  /\ \A k \in DOMAIN memory : memory[k].value.kind # "cyc"
  /\ \A k \in DOMAIN redis : redis[k].value.kind # "cyc"
  /\ \A r \in ReqIds :
       (reqs[r].captured /\ reqs[r].handler = "done" /\ promises[r].val.kind = "cyc")
         => (reqs[r].body.kind = "cyc" /\ reqs[r].errs = 0)

\* The parts of C20 that hold: the slow tier never holds such a payload, the
\* request is answered with it and no error is raised.
C20_UnserializableAnswered ==
  /\ \A k \in DOMAIN redis : redis[k].value.kind # "cyc"
  /\ \A r \in ReqIds :
       (reqs[r].captured /\ reqs[r].handler = "done" /\ promises[r].val.kind = "cyc")
         => (reqs[r].body.kind = "cyc" /\ reqs[r].errs = 0)

\* C21: with disableAuthCaching enabled no tier holds an entry written for a
\* request that carried a caller identity (a key whose identity part is not
\* "anon"), and no request that carries a caller identity is answered from a
\* store or reads one.
C21_NoAuthCaching ==
  options.disableAuthCaching =>
    /\ \A k \in DOMAIN memory \cup DOMAIN redis : Split(k, ":")[5] = <<"anon">>
    /\ \A r \in ReqIds :
         reqs[r].req.user # <<>> =>
           /\ ~reqs[r].xcache /\ ~reqs[r].cached.present
           /\ reqs[r].key = <<>> /\ ~reqs[r].patched

\* A request with a caller identity has been passed downstream while the
\* store holds the entry of an anonymous request for the same path.
C21_Witness ==
  /\ options.disableAuthCaching
  /\ \E r \in ReqIds :
       /\ reqs[r].req.user # <<>> /\ reqs[r].req.method = "GET"
       /\ reqs[r].pc = "done" /\ reqs[r].nexts = 1
       /\ \E k \in DOMAIN memory : Split(k, ":")[2] = reqs[r].req.url

\* The bypass conditions, as the options state them for request q.
BypassCondition(q) ==
  \/ q.method \notin options.methods
  \/ \E p \in options.excludePaths : IsPrefix(p, q.url)
  \/ (options.disableAuthCaching /\ q.user # <<>>)
  \/ q.url \in options.skipCache

\* The step in which the middleware is called for r with a non-write request
\* that meets a bypass condition.
BypassCall(r) ==
  /\ reqs[r].pc = "idle" /\ reqs'[r].pc # "idle"
  /\ reqs'[r].req.method \notin WriteMethods
  /\ BypassCondition(reqs'[r].req)

\* C25: a non-write request that meets a bypass condition is passed
\* downstream exactly once with its response object unwrapped, and the call
\* leaves every tier, the counters and the registry unchanged.
C25_BypassUntouched ==
  [][\A r \in ReqIds :
       BypassCall(r) =>
         /\ reqs'[r].pc = "done" /\ reqs'[r].nexts = 1 /\ reqs'[r].errs = 0
         /\ ~reqs'[r].patched /\ ~reqs'[r].xcache /\ reqs'[r].body = NoPayload
         /\ UNCHANGED <<memory, redis, hits, misses, pendingRequests, promises>>]_vars

\* A request under the excluded prefix has been passed downstream while the
\* fast tier holds an entry and a fetch is registered.
C25_Witness ==
  \E r \in ReqIds :
    /\ reqs[r].req.method \notin WriteMethods
    /\ BypassCondition(reqs[r].req) /\ options.excludePaths # {}
    /\ reqs[r].pc = "done" /\ reqs[r].nexts = 1
    /\ DOMAIN memory # {} /\ DOMAIN pendingRequests # {}

\* The response of call r is the payload the call read from a store, sent on
\* a response object that was never handed to the handler.
FromStore(r) ==
  /\ reqs[r].cached.present
  /\ ~reqs[r].patched
  /\ reqs[r].body = reqs[r].cached.value

\* C22: a response carries X-Cache: HIT if and only if its payload was read
\* from a store (fresh or stale hit); a response produced by the downstream
\* handler never carries it.
C22_HitMarkerIffFromStore ==
  \A r \in ReqIds :
    reqs[r].body # NoPayload =>
      /\ reqs[r].xcache <=> FromStore(r)
      /\ reqs[r].patched => ~reqs[r].xcache

\* The response the handler produced carries no marker, the fresh hit and
\* the stale hit that followed carry it.
C22_Witness ==
  \E r0, r1, r2 \in ReqIds :
    /\ reqs[r0].patched /\ reqs[r0].body.kind = "ok" /\ ~reqs[r0].xcache
    /\ reqs[r1].xcache /\ reqs[r1].lapse = "within" /\ reqs[r1].handler = "none"
    /\ reqs[r2].xcache /\ reqs[r2].lapse = "at" /\ reqs[r2].handler # "none"

\* The calls answered from a stored entry, and the cache-path calls that went
\* on to the fetch path (as leader or as follower).
AnsweredFromStore == {r \in ReqIds : reqs[r].xcache}
WentToFetch == {r \in ReqIds : reqs[r].promise # 0}

\* C23: hits equals the number of requests answered from a stored entry and
\* misses the number of cache-path requests that proceeded to the fetch path;
\* an expired entry read without stale-while-revalidate counts as a miss.
C23_CountersMatch ==
  /\ hits = Cardinality(AnsweredFromStore)
  /\ misses = Cardinality(WentToFetch)

\* The part of C23 that holds: with stale-while-revalidate enabled the
\* counters match.
C23_CountersMatchWithSwr ==
  options.staleWhileRevalidate => C23_CountersMatch


\* C24: when clearCache(pattern) completes with no request in progress, no
\* tier holds a key matching the pattern (no key at all for "*"), every key
\* that does not match is still held with its entry, and the counters and
\* the registry are what they were.
GlobMatch(pattern, key) == wildcardMatch(pattern, key)

HeldBy(mem, red) ==
  [m |-> IF options.useMemory THEN DOMAIN mem ELSE {},
   r |-> IF options.useRedis THEN {k \in DOMAIN red : now < red[k].exp} ELSE {}]

ClearedAll ==
  /\ \A k \in HeldBy(memory, redis).m \cup HeldBy(memory, redis).r :
        ~GlobMatch(cleared.pattern, k)
  /\ cleared.pattern = <<"*">> =>
        HeldBy(memory, redis).m \cup HeldBy(memory, redis).r = {}

KeptOthers ==
  /\ \A k \in HeldBy(cleared.memory, cleared.redis).m :
        ~GlobMatch(cleared.pattern, k) => k \in DOMAIN memory /\ memory[k] = cleared.memory[k]
  /\ \A k \in HeldBy(cleared.memory, cleared.redis).r :
        ~GlobMatch(cleared.pattern, k) => k \in DOMAIN redis /\ redis[k] = cleared.redis[k]

CountersKept ==
  /\ hits = cleared.hits
  /\ misses = cleared.misses
  /\ pendingRequests = cleared.pendingRequests

ClearPost == ClearedAll /\ KeptOthers /\ CountersKept

C24_ClearCacheExact == [][cleared'.n # cleared.n => ClearPost']_vars

\* C24, for a pattern that is not the empty string.
C24_ClearCacheNonEmpty ==
  [][(cleared'.n # cleared.n /\ cleared'.pattern # <<>>) => ClearPost']_vars

\* C26: with auto-generated REST rules on, once a write has been processed:
\* after a PUT, PATCH or DELETE to <collection>/<id> no tier holds a GET entry
\* of the item or of the collection; after a POST to a collection path none
\* of that collection; after a write to a nested path none of the resource
\* in front of its last segment.
RestPassDone == inv.pc = "idle" /\ inv.req # NoReq

GetEntryHeld(path) ==
  \E q \in RestCached :
    /\ q.url = path
    /\ \/ options.useMemory /\ buildCacheKey(q) \in DOMAIN memory
       \/ options.useRedis /\ RedisGet(buildCacheKey(q)).present

LastSegment(url) == pathPartsOf(url)[Len(pathPartsOf(url))]

WithoutLastSegment(url) ==
  <<"/">> \o Join(SubSeq(pathPartsOf(url), 1, Len(pathPartsOf(url)) - 1), "/")

ItemWriteDone ==
  /\ RestPassDone
  /\ inv.req.method \in {"PUT", "PATCH", "DELETE"}
  /\ Len(pathPartsOf(inv.req.url)) >= 2
  /\ looksLikeId(LastSegment(inv.req.url))

CollectionPostDone ==
  /\ RestPassDone
  /\ inv.req.method = "POST"
  /\ ~looksLikeId(LastSegment(inv.req.url))

NestedWriteDone == RestPassDone /\ Len(pathPartsOf(inv.req.url)) >= 3

C26_ItemWriteClears ==
  ItemWriteDone =>
    ~GetEntryHeld(inv.req.url) /\ ~GetEntryHeld(WithoutLastSegment(inv.req.url))

C26_CollectionPostClears == CollectionPostDone => ~GetEntryHeld(inv.req.url)

C26_NestedWriteClearsParent ==
  NestedWriteDone => ~GetEntryHeld(WithoutLastSegment(inv.req.url))

C26_RestRulesClear ==
  C26_ItemWriteClears /\ C26_CollectionPostClears /\ C26_NestedWriteClearsParent

\* C27: two bodies that are the same object up to the order of the keys, at
\* any nesting depth, get the same body digest; two bodies that are the same
\* up to the order of keys and of array elements, but not up to the order of
\* keys alone, get different digests.
RECURSIVE SameUpToKeyOrder(_, _)
SameUpToKeyOrder(a, b) ==
  /\ a.t = b.t
  /\ a.s = b.s
  /\ Len(a.els) = Len(b.els)
  /\ \A i \in DOMAIN a.els : SameUpToKeyOrder(a.els[i], b.els[i])
  /\ Len(a.kv) = Len(b.kv)
  /\ \A i \in DOMAIN a.kv : \E j \in DOMAIN b.kv :
        a.kv[i][1] = b.kv[j][1] /\ SameUpToKeyOrder(a.kv[i][2], b.kv[j][2])

RECURSIVE SameUpToAnyOrder(_, _)
SameUpToAnyOrder(a, b) ==
  /\ a.t = b.t
  /\ a.s = b.s
  /\ Len(a.els) = Len(b.els)
  /\ \E f \in [DOMAIN a.els -> DOMAIN b.els] :
        /\ \A i, j \in DOMAIN a.els : f[i] = f[j] => i = j
        /\ \A i \in DOMAIN a.els : SameUpToAnyOrder(a.els[i], b.els[f[i]])
  /\ Len(a.kv) = Len(b.kv)
  /\ \A i \in DOMAIN a.kv : \E j \in DOMAIN b.kv :
        a.kv[i][1] = b.kv[j][1] /\ SameUpToAnyOrder(a.kv[i][2], b.kv[j][2])

DigestOf(key) == Split(key, ":")[4]

C27_DigestUpToKeyOrder ==
  keyA # <<>> =>
    /\ SameUpToKeyOrder(reqA.body, reqB.body) => DigestOf(keyA) = DigestOf(keyB)
    /\ (SameUpToAnyOrder(reqA.body, reqB.body) /\ ~SameUpToKeyOrder(reqA.body, reqB.body))
          => DigestOf(keyA) # DigestOf(keyB)

\* Two bodies with the keys in another order at depth 1 and 2 have been
\* digested and the digests are the same.
C27_Witness ==
  /\ keyA # <<>>
  /\ reqA.body = BodyObj(<< <<<<"x">>, Str1>>, <<<<"y">>, ObjAB>> >>)
  /\ reqB.body = BodyObj(<< <<<<"y">>, ObjBA>>, <<<<"x">>, Str1>> >>)
  /\ DigestOf(keyA) = DigestOf(keyB)

\* C28: at no instant are two downstream handler invocations, by a leader
\* fetch or by a background refresh, in flight for the same key.
InFlight(k) ==
  {r \in ReqIds : reqs[r].key = k /\ reqs[r].handler \in {"running", "refreshing"}}

C28_OneInvocationInFlight == \A k \in KeysInUse : Cardinality(InFlight(k)) <= 1

\* C28 for the runs in which no handler raises.
C28_OneInFlightNoRaise == NoHandlerRaised => C28_OneInvocationInFlight

\* C28 for the runs with the slow tier configured, where every store read is
\* an I/O suspension.
C28_OneInFlightSlowTier == options.useRedis => C28_OneInvocationInFlight

\* C29: once a write to a path has completed its invalidation, no tier
\* receives an entry for that path from a handler invocation, of a leader or
\* of a background refresh, that was in progress when the invalidation
\* completed.
StartedBeforeWrite(r) ==
  \E w \in ReqIds :
    /\ r \in reqs[w].seen
    /\ normalizeUrl(reqs[w].req.url) = normalizeUrl(reqs[r].req.url)

HandlerAnswers(r) ==
  reqs[r].handler \in {"running", "refreshing"} /\ reqs'[r].handler = "done"

C29_NoEntryFromEarlierInvocation ==
  [][\A r \in ReqIds :
       (StartedBeforeWrite(r) /\ HandlerAnswers(r)) => (memory' = memory /\ redis' = redis)]_vars

\* C30: a registration made by a foreground leader is eventually removed
\* once the leader's handler has finished its response, whether it answered
\* with res.json, res.send or res.end or raised.
LeaderRegistered(p) ==
  /\ promises[p].kind = "fetch"
  /\ promises[p].key \in DOMAIN pendingRequests
  /\ pendingRequests[promises[p].key] = p

C30_LeaderEventuallyCleared ==
  \A p \in ReqIds :
    (LeaderRegistered(p) /\ reqs[p].handler = "done") ~> ~LeaderRegistered(p)

\* C30 for the handlers that answer with res.json or res.send or raise.
C30_ClearedUnlessEnd ==
  \A p \in ReqIds :
    (LeaderRegistered(p) /\ reqs[p].handler = "done" /\ ~NeverSettles(p))
      ~> ~LeaderRegistered(p)

\* C31: a request that found no stored entry for its key and awaited a
\* pending background refresh of that key has been answered with a payload
\* when its middleware call returns.
AwaitedRefresh(r) ==
  /\ ~reqs[r].cached.present
  /\ reqs[r].promise # 0
  /\ reqs[r].promise # r
  /\ promises[reqs[r].promise].kind = "refresh"

C31_MissDuringRefreshAnswered ==
  \A r \in ReqIds :
    (reqs[r].pc = "done" /\ AwaitedRefresh(r)) => reqs[r].body # NoPayload

\* C32: at the step in which a leader's promise resolves with a payload
\* within the size limit, every configured tier holds that payload under the
\* leader's key, with the createdAt and ttl of the capture.
LeaderResolves(p) ==
  /\ promises[p].kind = "fetch"
  /\ promises[p].st = "pending"
  /\ promises'[p].st = "resolved"
  /\ promises'[p].val.kind = "ok"
  /\ promises'[p].val.size <= options.maxPayloadSize

HoldsCapture(store, p) ==
  /\ promises[p].key \in DOMAIN store
  /\ store[promises[p].key].value = promises[p].val
  /\ store[promises[p].key].createdAt = now
  /\ store[promises[p].key].ttl = Ttl(reqs[p].req)

C32_ResolvedMeansStored ==
  [][\A p \in ReqIds :
       LeaderResolves(p) =>
         /\ options.useMemory => HoldsCapture(memory, p)'
         /\ options.useRedis => HoldsCapture(redis, p)']_vars

\* C32 for the fast tier alone.
C32_ResolvedMeansStoredFast ==
  [][\A p \in ReqIds :
       LeaderResolves(p) => (options.useMemory => HoldsCapture(memory, p)')]_vars

\* C33: two calls that read the same stored entry at the same instant
\* classify it alike, fresh or expired, whatever TTL getPerRouteTtl resolves
\* for each of them.
SameEntrySameInstant(r1, r2) ==
  /\ Classified(r1) /\ Classified(r2)
  /\ reqs[r1].cached = reqs[r2].cached
  /\ reqs[r1].at = reqs[r2].at

C33_FreshnessFromEntryAlone ==
  \A r1, r2 \in ReqIds :
    SameEntrySameInstant(r1, r2) => (TreatedAsExpired(r1) <=> TreatedAsExpired(r2))

\* C33 for calls with the same resolved TTL.
C33_FreshnessSameTtl ==
  \A r1, r2 \in ReqIds :
    (SameEntrySameInstant(r1, r2) /\ Ttl(reqs[r1].req) = Ttl(reqs[r2].req))
      => (TreatedAsExpired(r1) <=> TreatedAsExpired(r2))

\* C34: a PUT, PATCH, DELETE or non-cacheable POST invokes the downstream
\* handler only when every deletion of its invalidation has been done, and no
\* step of such a request reads a tier, adds or changes a stored entry,
\* changes a counter or touches the registry.
PlainWrite(q) ==
  q.method \in {"PUT", "PATCH", "DELETE"} \/ (q.method = "POST" /\ ~options.cachePost)

StepOf(r) == reqs'[r] # reqs[r]

OnlyDeletes(before, after) ==
  /\ DOMAIN after \subseteq DOMAIN before
  /\ \A k \in DOMAIN after : after[k] = before[k]

C34_WriteInvalidatesThenPasses ==
  [][\A r \in ReqIds :
       (StepOf(r) /\ PlainWrite(reqs'[r].req)) =>
         /\ reqs'[r].nexts > reqs[r].nexts =>
               reqs[r].pc = "invalidated" /\ reqs[r].todo = <<>>
                 /\ reqs[r].snap = [m |-> {}, r |-> {}]
         /\ reqs'[r].key = <<>> /\ ~reqs'[r].cached.present /\ reqs'[r].promise = 0
         /\ OnlyDeletes(memory, memory') /\ OnlyDeletes(redis, redis')
         /\ hits' = hits /\ misses' = misses
         /\ pendingRequests' = pendingRequests]_vars

\* A DELETE has been handed to its handler after its invalidation removed
\* the entry an earlier GET had stored.
C34_Witness ==
  \E w, g \in ReqIds :
    /\ reqs[w].req.method = "DELETE" /\ reqs[w].pc = "done" /\ reqs[w].nexts = 1
    /\ reqs[g].req.method = "GET" /\ reqs[g].captured /\ g < w
    /\ reqs[g].key \notin DOMAIN memory
    /\ hits + misses = 1

\* Call r read an entry whose age had reached the TTL resolved for r.
ExpiredRead(r) == Classified(r) /\ AgeAt(r, reqs[r].cached) >= Ttl(reqs[r].req)

\* A read of key k through get returns nothing or the payload val.
HoldsNoOther(get(_), k, val) == get(k) # Absent => get(k).value = val

\* With stale-while-revalidate disabled, a call that read an expired entry is
\* not answered from the store and is on the fetch path.
C35_ExpiredReadFetches ==
  ~options.staleWhileRevalidate =>
    \A r \in ReqIds : ExpiredRead(r) => ~reqs[r].xcache /\ reqs[r].promise # 0

\* C35: with stale-while-revalidate disabled, a call that read an expired
\* entry is never answered with it but takes the fetch path, and when its
\* handler's payload is captured (within the size limit) no tier goes on
\* holding another entry for the key.
C35_ExpiredReplaced ==
  [][~options.staleWhileRevalidate =>
       \A p \in ReqIds :
         /\ ExpiredRead(p)' => ~reqs'[p].xcache /\ reqs'[p].promise # 0
         /\ (LeaderResolves(p) /\ ExpiredRead(p)) =>
              /\ options.useMemory =>
                   HoldsNoOther(MemoryGet, promises[p].key, promises[p].val)'
              /\ options.useRedis =>
                   HoldsNoOther(RedisGet, promises[p].key, promises[p].val)']_vars

\* C35 for the fast tier alone.
C35_ExpiredReplacedFast ==
  [][~options.staleWhileRevalidate =>
       \A p \in ReqIds :
         (LeaderResolves(p) /\ ExpiredRead(p)) =>
           (options.useMemory => HoldsCapture(memory, p)')]_vars

\* The methods a rule names for invalidation, GET when it names none.
RuleMethods(rule) ==
  IF rule.invalidateMethods = {Undefined} THEN {"GET"} ELSE rule.invalidateMethods

MethodOf(k) == Split(k, ":")[1]

\* The keys of a store that rule still has to answer for under pattern: the
\* method is one of the rule's, the pattern matches and, where the rule is
\* scoped to a known caller, the identity is the caller's.
StillMatching(keys, rule, pattern, user) ==
  {k \in keys :
     /\ parseCacheKey(k).ok
     /\ MethodOf(k) \in {<<m>> : m \in RuleMethods(rule)}
     /\ keyMatchesPattern(k, pattern)
     /\ (rule.respectUserScope # "false" /\ user # <<>>) => parseCacheKey(k).userId = user}

PassDone == inv.pc = "idle" /\ inv.req # NoReq /\ options.maxInvalidationDepth > 0

NothingLeft(i, pattern) ==
  /\ StillMatching(DOMAIN memory, inv.log[i].rule, pattern, inv.log[i].user) = {}
  /\ options.useRedis =>
       StillMatching(DOMAIN redis, inv.log[i].rule, pattern, inv.log[i].user) = {}

\* C36: after a completed pass, for every applicable rule and every expanded
\* pattern of it, no store holds a key that matches the pattern, has a method
\* of the rule and, under user scoping, the caller's identity; also when two
\* rules share a pattern and differ in their methods.
C36_PassLeavesNoMatch ==
  PassDone =>
    \A i \in DOMAIN inv.log :
      \A j \in DOMAIN inv.log[i].patterns : NothingLeft(i, inv.log[i].patterns[j])

\* C36 for the patterns that no earlier rule of the pass had expanded to.
C36_FirstUseLeavesNoMatch ==
  PassDone =>
    \A i \in DOMAIN inv.log :
      \A j \in DOMAIN inv.log[i].patterns :
        (\A h \in 1..(i - 1) : \A g \in DOMAIN inv.log[h].patterns :
            inv.log[h].patterns[g] # inv.log[i].patterns[j])
          => NothingLeft(i, inv.log[i].patterns[j])

KeptByRule(store, after, rule) ==
  \A k \in DOMAIN store :
    MethodOf(k) \notin {<<m>> : m \in RuleMethods(rule)} =>
      k \in DOMAIN after /\ after[k] = store[k]

\* C37: processing a rule leaves every key whose method is not one of the
\* rule's invalidateMethods (GET when unset) unchanged in every store.
C37_OtherMethodsKept ==
  [][Len(inv'.log) > Len(inv.log) =>
       /\ KeptByRule(memory, memory', Head(inv.queue))
       /\ KeptByRule(redis, redis', Head(inv.queue))]_vars

\* A rule that names POST deleted a key and left a GET key that its pattern
\* matches.
C37_Witness ==
  \E i \in DOMAIN inv.log :
    /\ inv.log[i].rule.invalidateMethods = {"POST"}
    /\ inv.log[i].deleted # {}
    /\ \E k \in DOMAIN memory :
         MethodOf(k) = <<"GET">> /\ keyMatchesPattern(k, inv.log[i].patterns[1])

\* Every sweep of the pass, rule after rule.
RECURSIVE SweepsOf(_)
SweepsOf(log) == IF log = <<>> THEN <<>> ELSE Head(log).swept \o SweepsOf(Tail(log))

SweptOnce ==
  \A a, b \in DOMAIN SweepsOf(inv.log) :
    SweepsOf(inv.log)[a] = SweepsOf(inv.log)[b] => a = b

\* context.depth is 0 when performInvalidation compares it.
DepthReached == 0 >= options.maxInvalidationDepth

\* C39: a pass that has rules to process comes to its end, no expanded
\* pattern is swept twice in a pass, and with the depth bound reached the
\* pass returns at once, having processed no rule and deleted no key.
C39_PassTerminatesSweepingOnce ==
  /\ [](SweptOnce /\ (DepthReached => inv.pc = "idle" /\ inv.log = <<>>))
  /\ [][(DepthReached /\ inv'.req # inv.req) =>
          memory' = memory /\ redis' = redis /\ inv'.pc = "idle"]_vars
  /\ (inv.pc = "rules") ~> (inv.pc = "idle" /\ inv.queue = <<>>)

\* A pass over a pattern list with repetitions is done: fewer sweeps than
\* expanded patterns, and keys were deleted.
C39_Witness ==
  /\ PassDone
  /\ \E i \in DOMAIN inv.log :
       /\ Len(inv.log[i].swept) < Len(inv.log[i].patterns)
       /\ inv.log[i].deleted # {}

\* With the depth bound reached a write has been processed over stores that
\* hold entries.
C39_DepthWitness ==
  DepthReached /\ inv.req # NoReq /\ inv.pc = "idle" /\ DOMAIN memory # {}

ErrorEntries(store) == {k \in DOMAIN store : store[k].value.kind = "err"}

\* C38: no tier ever holds an entry made of an error response, whether the
\* handler emitted it with an error status or the error path emitted it after
\* the handler raised.
C38_NoErrorResponseStored ==
  ErrorEntries(memory) = {} /\ ErrorEntries(redis) = {}

\* C38 for the responses of handlers that did not raise.
C38_NoErrorStatusStored ==
  NoHandlerRaised => ErrorEntries(memory) = {} /\ ErrorEntries(redis) = {}

\* The entry the first configured tier returns for key k.
FirstTierGet(k) ==
  IF options.useMemory THEN MemoryGet(k)
  ELSE IF options.useRedis THEN RedisGet(k) ELSE Absent

TiersKept == memory' = memory /\ redis' = redis

\* C40: a tiered read takes the entry of the first configured tier that
\* returns one, goes on to the slow tier only when the fast tier returned
\* nothing, and neither the read nor the serving of a fresh hit changes a
\* tier: an entry found in the slow tier alone is not copied to the fast tier.
C40_FirstTierWinsNoTierChanged ==
  [][\A r \in ReqIds :
       LET k == reqs'[r].key
           twoTiers == options.useMemory /\ options.useRedis
       IN /\ (reqs[r].pc = "idle" /\ k # <<>>) =>
               /\ TiersKept
               /\ FirstTierGet(k).present =>
                    reqs'[r].pc = "resume" /\ reqs'[r].cached = FirstTierGet(k)
               /\ ~FirstTierGet(k).present =>
                    /\ ~reqs'[r].cached.present
                    /\ reqs'[r].pc = IF twoTiers THEN "read" ELSE "resume"
          /\ (reqs[r].pc = "read" /\ reqs'[r].pc # "read") =>
               /\ TiersKept
               /\ reqs'[r].pc = "resume" /\ reqs'[r].cached = RedisGet(k)
          /\ (reqs[r].pc = "resume" /\ reqs'[r].xcache /\ reqs'[r].handler = "none") =>
               /\ TiersKept
               /\ reqs'[r].body = reqs[r].cached.value]_vars

\* With both tiers configured, a call has been answered with the entry that
\* only the slow tier holds, and the fast tier still does not hold the key.
C40_Witness ==
  \E r \in ReqIds :
    /\ options.useMemory /\ options.useRedis
    /\ reqs[r].pc = "done" /\ reqs[r].xcache
    /\ reqs[r].key \in DOMAIN redis /\ reqs[r].cached = redis[reqs[r].key]
    /\ reqs[r].key \notin DOMAIN memory

====
